---- MODULE Spec2Model ----
(***************************************************************************)
(* State-machine model of FirefoxAccount                                   *)
(* (components/fxa-client/src/lib.rs): the persisted account state, the    *)
(* access-token cache, the OAuth flow store and the operations on them.    *)
(*                                                                         *)
(* Strings the code inspects character by character (scopes, the scope     *)
(* field of a token response) are sequences of one-character strings.      *)
(* Option<T> is a sequence of length at most one: None is <<>>, Some(x) is *)
(* <<x>>.  HashMap<K, V> is a function whose DOMAIN is the set of keys.    *)
(***************************************************************************)
EXTENDS Integers, Sequences, FiniteSets, TLC

VARIABLES
    refresh_token,       \* state.refresh_token : Option<RefreshToken>
    scoped_keys,         \* state.scoped_keys : HashMap<String, ScopedKey>
    access_token_cache,  \* HashMap<String, AccessTokenInfo>
    flow_store,          \* HashMap<String, OAuthFlow>
    persist_callback,    \* TRUE iff a PersistCallback is registered
    now,                 \* the wall clock, in seconds
    last,                \* the last call: arguments, requests sent, result
    last_handled_command, \* state.last_handled_command : Option<u64>
    commands_data,       \* state.commands_data : HashMap<String, String>
    profile_cache,       \* Option<CachedResponse<ProfileResponse>>
    highest_handled,     \* the highest value last_handled_command has held
    delivered,           \* TabReceived events returned so far, per command index
    component,           \* the part of the API the embedder drives in this run
    config               \* state.config : Config

\* What the token broker and the OAuth flows never touch.
command_vars == <<last_handled_command, commands_data, profile_cache,
                  highest_handled, delivered, component, config>>

vars == <<refresh_token, scoped_keys, access_token_cache, flow_store,
          persist_callback, now, last, last_handled_command, commands_data,
          profile_cache, highest_handled, delivered, component, config>>

----------------------------------------------------------------------------
(* Bounds of the model *)

\* The clock runs from 0 to MaxNow.
MaxNow == 2
\* A token response grants OAUTH_MIN_TIME_LEFT .. OAUTH_MIN_TIME_LEFT + MaxSlack seconds.
MaxSlack == 1
\* The server numbers its commands 1 .. MaxIndex.
MaxIndex == 4
\* A byte sequence handed to Key::deserialize has at most MaxBlob bytes.
MaxBlob == 4

----------------------------------------------------------------------------
(* Option and HashMap *)

None == <<>>
Some(x) == <<x>>
IsSome(o) == Len(o) = 1
Unwrap(o) == o[1]

EmptyMap == [k \in {} |-> k]
Insert(m, k, v) == [x \in (DOMAIN m) \cup {k} |-> IF x = k THEN v ELSE m[x]]
Remove(m, k) == [x \in (DOMAIN m) \ {k} |-> m[x]]
Get(m, k) == IF k \in DOMAIN m THEN Some(m[k]) ELSE None

----------------------------------------------------------------------------
(* Strings *)

SP == " "
TAB == "\t"
NL == "\n"

\* scopes.rs; one letter stands for each scope name.
PROFILE == <<"p">>
OLD_SYNC == <<"s">>

\* str::contains(" ")
ContainsSpace(s) == \E i \in 1..Len(s) : s[i] = SP

\* The index of the first SP of s at or after i, Len(s) + 1 when there is none.
RECURSIVE NextSpace(_, _)
NextSpace(s, i) ==
    IF i > Len(s) THEN Len(s) + 1
    ELSE IF s[i] = SP THEN i
    ELSE NextSpace(s, i + 1)

\* str::split(' '): the pieces between single spaces, empty pieces included;
\* the empty string splits into one empty piece.
RECURSIVE SplitFrom(_, _)
SplitFrom(s, i) ==
    LET j == NextSpace(s, i)
        piece == SubSeq(s, i, j - 1)
    IN IF j > Len(s) THEN <<piece>> ELSE <<piece>> \o SplitFrom(s, j + 1)

Split(s) == SplitFrom(s, 1)

\* [&str]::join(" ")
RECURSIVE Join(_)
Join(parts) ==
    IF Len(parts) = 0 THEN <<>>
    ELSE IF Len(parts) = 1 THEN parts[1]
    ELSE parts[1] \o <<SP>> \o Join(Tail(parts))

Range(q) == {q[i] : i \in 1..Len(q)}

\* Every sequence that lists the elements of the finite set S once each:
\* the orders in which a HashSet may be iterated.
Orders(S) ==
    {q \in [1..Cardinality(S) -> S] : Range(q) = S}

----------------------------------------------------------------------------
(* Constants of the program *)

\* A cached token with less than OAUTH_MIN_TIME_LEFT seconds to live is
\* considered already expired.
OAUTH_MIN_TIME_LEFT == 60
\* A cached profile response is fresh for PROFILE_FRESHNESS_THRESHOLD ms.
PROFILE_FRESHNESS_THRESHOLD == 120000
\* The auth secret of a push key has SER_AUTH_LENGTH bytes.
SER_AUTH_LENGTH == 16

\* Config::new(content_url, client_id, redirect_uri), as given to
\* FirefoxAccount::new or read from the persisted state.
Config ==
    [content_host |-> "accounts.firefox.com",
     client_id |-> "12345678",
     redirect_uri |-> "https://foo.bar"]

----------------------------------------------------------------------------
(* What the server and the random generator may produce *)

AccessTokens == {"a1", "a2"}
RefreshTokens == {"r1", "r2"}
ExpiresIns == OAUTH_MIN_TIME_LEFT .. (OAUTH_MIN_TIME_LEFT + MaxSlack)

\* Seconds the clock may advance while a request is in flight.
Latencies == {0} \cup {d \in {1} : now + d <= MaxNow}

\* A request that did not produce a response (transport or HTTP error).
Failed ==
    [ok |-> FALSE, access_token |-> "", refresh_token |-> None, scope |-> <<>>,
     expires_in |-> 0, keys_jwe |-> None]

\* OAuthTokenResponse of oauth_token_with_refresh_token for one scope.
RefreshResponses(scope) ==
    {Failed} \cup
    {[ok |-> TRUE, access_token |-> a, refresh_token |-> None, scope |-> scope,
      expires_in |-> e, keys_jwe |-> None] : a \in AccessTokens, e \in ExpiresIns}

\* A request of the HTTP client, with whether it succeeded.
Request(kind, token, scopes, code, code_verifier, ok) ==
    [kind |-> kind, token |-> token, scopes |-> scopes, code |-> code,
     code_verifier |-> code_verifier, ok |-> ok]

----------------------------------------------------------------------------
(* The record of a call *)

Call(op) ==
    [op |-> op, scope |-> <<>>, scopes |-> <<>>, state |-> "", code |-> "",
     wants_keys |-> FALSE, pairing_url |-> None, result |-> "Ok",
     token |-> None, url |-> None, hit |-> FALSE, reqs |-> <<>>,
     resp |-> None, persisted |-> <<>>, events |-> <<>>, profile |-> None,
     json |-> None, args |-> <<>>, key |-> None, blob |-> None]

\* StateV2 as handed to state_to_json, but for its config.
StateV2(rt, keys, index, data) ==
    [refresh_token |-> rt, scoped_keys |-> keys,
     last_handled_command |-> index, commands_data |-> data]

\* The StateV2 of an account without a command channel yet.
PersistedState(rt, keys) == StateV2(rt, keys, None, EmptyMap)

\* maybe_call_persist_callback: the serialized states the callback receives.
maybe_call_persist_callback(state) ==
    IF persist_callback THEN <<state>> ELSE <<>>

----------------------------------------------------------------------------
(* get_access_token *)

\* The scope arguments get_access_token is called with.
ScopeArgs ==
    {PROFILE, OLD_SYNC, <<"p", SP, "s">>, <<"p", TAB, "s">>, <<"p", NL, "s">>}

\* The cache test: oauth_info.expires_at > util::now_secs() + OAUTH_MIN_TIME_LEFT
CacheFresh(info, t) == info.expires_at > t + OAUTH_MIN_TIME_LEFT

\* A mutant: no scope is rejected.
RejectsNoScope(scope) == FALSE

\* The guard of MultipleScopesRequested: scope.contains(" ")
IsMultipleScopes(scope) == ContainsSpace(scope)

\* A mutant: the refresh token is taken to grant every scope.
GrantsAnyScope(rt, scope) == TRUE

\* refresh_token.scopes.contains(scope)
GrantsScope(rt, scope) == scope \in rt.scopes

\* since_epoch.as_secs() + resp.expires_in
ExpiresAt(t, expires_in) == t + expires_in

\* A mutant: a cached token is served only while the refresh token still
\* grants its scope and its key is the one held.
get_access_token_revalidating(scope, resp, d) ==
    LET call == [Call("get_access_token") EXCEPT !.scope = scope]
        cached == Get(access_token_cache, scope)
    IN
    IF IsMultipleScopes(scope) THEN
        /\ last' = [call EXCEPT !.result = "MultipleScopesRequested"]
        /\ UNCHANGED <<refresh_token, scoped_keys, access_token_cache,
                       flow_store, persist_callback, now>>
    ELSE IF /\ IsSome(cached) /\ CacheFresh(Unwrap(cached), now)
            /\ IsSome(refresh_token) /\ GrantsScope(Unwrap(refresh_token), scope)
            /\ Unwrap(cached).key = Get(scoped_keys, scope) THEN
        /\ last' = [call EXCEPT !.token = cached, !.hit = TRUE]
        /\ UNCHANGED <<refresh_token, scoped_keys, access_token_cache,
                       flow_store, persist_callback, now>>
    ELSE IF ~IsSome(refresh_token) \/ ~GrantsScope(Unwrap(refresh_token), scope) THEN
        /\ last' = [call EXCEPT !.result = "NoCachedToken"]
        /\ UNCHANGED <<refresh_token, scoped_keys, access_token_cache,
                       flow_store, persist_callback, now>>
    ELSE
        LET req == Request("oauth_token_with_refresh_token",
                           Unwrap(refresh_token).token, <<scope>>, "", "", resp.ok)
            token_info == [scope |-> resp.scope,
                           token |-> resp.access_token,
                           key |-> Get(scoped_keys, scope),
                           expires_at |-> ExpiresAt(now + d, resp.expires_in)]
        IN
        /\ now' = now + d
        /\ IF ~resp.ok THEN
               /\ last' = [call EXCEPT !.result = "RequestError", !.reqs = <<req>>]
               /\ UNCHANGED access_token_cache
           ELSE
               /\ access_token_cache' = Insert(access_token_cache, scope, token_info)
               /\ last' = [call EXCEPT !.token = Some(token_info), !.reqs = <<req>>,
                                       !.resp = Some(resp)]
        /\ UNCHANGED <<refresh_token, scoped_keys, flow_store, persist_callback>>

\* get_access_token: resp answers the refresh request and d is the time it
\* takes, when it is sent.
get_access_token(scope, resp, d) ==
    LET call == [Call("get_access_token") EXCEPT !.scope = scope]
        cached == Get(access_token_cache, scope)
    IN
    IF IsMultipleScopes(scope) THEN
        /\ last' = [call EXCEPT !.result = "MultipleScopesRequested"]
        /\ UNCHANGED <<refresh_token, scoped_keys, access_token_cache,
                       flow_store, persist_callback, now>>
    ELSE IF IsSome(cached) /\ CacheFresh(Unwrap(cached), now) THEN
        /\ last' = [call EXCEPT !.token = cached, !.hit = TRUE]
        /\ UNCHANGED <<refresh_token, scoped_keys, access_token_cache,
                       flow_store, persist_callback, now>>
    ELSE IF ~IsSome(refresh_token) \/ ~GrantsScope(Unwrap(refresh_token), scope) THEN
        /\ last' = [call EXCEPT !.result = "NoCachedToken"]
        /\ UNCHANGED <<refresh_token, scoped_keys, access_token_cache,
                       flow_store, persist_callback, now>>
    ELSE
        LET req == Request("oauth_token_with_refresh_token",
                           Unwrap(refresh_token).token, <<scope>>, "", "", resp.ok)
            token_info == [scope |-> resp.scope,
                           token |-> resp.access_token,
                           key |-> Get(scoped_keys, scope),
                           expires_at |-> ExpiresAt(now + d, resp.expires_in)]
        IN
        /\ now' = now + d
        /\ IF ~resp.ok THEN
               /\ last' = [call EXCEPT !.result = "RequestError", !.reqs = <<req>>]
               /\ UNCHANGED access_token_cache
           ELSE
               /\ access_token_cache' = Insert(access_token_cache, scope, token_info)
               /\ last' = [call EXCEPT !.token = Some(token_info), !.reqs = <<req>>,
                                       !.resp = Some(resp)]
        /\ UNCHANGED <<refresh_token, scoped_keys, flow_store, persist_callback>>

\* Whether the call gets as far as the request to the server.
SendsRefreshRequest(scope) ==
    /\ ~IsMultipleScopes(scope)
    /\ ~(scope \in DOMAIN access_token_cache
          /\ CacheFresh(access_token_cache[scope], now))
    /\ IsSome(refresh_token)
    /\ GrantsScope(Unwrap(refresh_token), scope)

GetAccessToken ==
    \E scope \in ScopeArgs :
        IF SendsRefreshRequest(scope)
        THEN \E resp \in RefreshResponses(scope), d \in Latencies :
                 get_access_token(scope, resp, d) /\ UNCHANGED command_vars
        ELSE get_access_token(scope, Failed, 0) /\ UNCHANGED command_vars

----------------------------------------------------------------------------
(* The clock and the persist callback *)

Tick ==
    /\ now < MaxNow
    /\ now' = now + 1
    /\ last' = Call("tick")
    /\ UNCHANGED <<refresh_token, scoped_keys, access_token_cache, flow_store,
                   persist_callback>>
    /\ UNCHANGED command_vars

register_persist_callback ==
    /\ persist_callback' = TRUE
    /\ last' = Call("register_persist_callback")
    /\ UNCHANGED <<refresh_token, scoped_keys, access_token_cache, flow_store, now>>
    /\ UNCHANGED command_vars

unregister_persist_callback ==
    /\ persist_callback' = FALSE
    /\ last' = Call("unregister_persist_callback")
    /\ UNCHANGED <<refresh_token, scoped_keys, access_token_cache, flow_store, now>>
    /\ UNCHANGED command_vars

----------------------------------------------------------------------------
(* begin_oauth_flow, begin_pairing_flow *)

\* The values random_base64_url_string(&*RNG, 16) may return for `state`.
FlowStates == {"st1", "st2"}
\* The values random_base64_url_string(&*RNG, 43) may return for the verifier:
\* two where flows are checked against each other, one elsewhere.
CodeVerifiers == IF component = "pkce" THEN {"v1", "v2"} ELSE {"v1"}
\* The key pairs ScopedKeysFlow::with_random_key may generate.
KeyPairs == {"kp1"}

\* base64url(SHA-256(code_verifier)): one challenge per verifier.
CodeChallenge(code_verifier) == "S256:" \o code_verifier
\* base64url(generate_keys_jwk()): the public half of the key pair.
KeysJwk(key) == "jwk:" \o key

Pair(name, value) == [name |-> name, value |-> value]

\* The scope lists the begin calls are given.
ScopeLists ==
    {<<PROFILE>>, <<OLD_SYNC, PROFILE, OLD_SYNC>>}

\* A mutant: the two lists are concatenated, duplicates kept.
ConcatScopes(rt, scopes) ==
    IF IsSome(rt)
    THEN {scopes \o q : q \in Orders(Unwrap(rt).scopes)}
    ELSE {scopes}

\* The scope lists begin_oauth_flow may hand to oauth_flow: with a refresh
\* token, the requested and the held scopes collected in a HashSet and listed
\* in its iteration order; without one, the requested list as given.
AllScopes(rt, scopes) ==
    IF IsSome(rt)
    THEN Orders(Range(scopes) \cup Unwrap(rt).scopes)
    ELSE {scopes}

\* oauth_flow: the URL, and the flow stored under `state`.
oauth_flow(call, url, scopes, wants_keys, state, code_verifier, key, rng_ok) ==
    LET query ==
            url.query \o
            << Pair("client_id", <<config.client_id>>),
               Pair("redirect_uri", <<config.redirect_uri>>),
               Pair("scope", Join(scopes)),
               Pair("state", <<state>>),
               Pair("code_challenge_method", <<"S256">>),
               Pair("code_challenge", <<CodeChallenge(code_verifier)>>),
               Pair("access_type", <<"offline">>) >>
            \o (IF wants_keys THEN <<Pair("keys_jwk", <<KeysJwk(key)>>)>> ELSE <<>>)
        flow == [scoped_keys_flow |-> IF wants_keys THEN Some(key) ELSE None,
                 code_verifier |-> code_verifier]
    IN
    IF ~rng_ok THEN
        /\ last' = [call EXCEPT !.result = "RngError"]
        /\ UNCHANGED flow_store
    ELSE
        /\ flow_store' = Insert(flow_store, state, flow)
        /\ last' = [call EXCEPT !.state = state,
                                !.url = Some([url EXCEPT !.query = query])]

\* A mutant: the key pair is generated and published whatever wants_keys is.
begin_oauth_flow_with_keys(scopes, wants_keys, all_scopes, state, code_verifier, key, rng_ok) ==
    LET call == [Call("begin_oauth_flow") EXCEPT !.scopes = scopes,
                                                 !.wants_keys = wants_keys]
        url == [host |-> config.content_host, path |-> "/authorization",
                query |-> << Pair("action", <<"email">>),
                             Pair("response_type", <<"code">>) >>,
                fragment |-> None]
    IN
    /\ oauth_flow(call, url, all_scopes, TRUE, state, code_verifier, key, rng_ok)
    /\ UNCHANGED <<refresh_token, scoped_keys, access_token_cache,
                   persist_callback, now>>

begin_oauth_flow(scopes, wants_keys, all_scopes, state, code_verifier, key, rng_ok) ==
    LET call == [Call("begin_oauth_flow") EXCEPT !.scopes = scopes,
                                                 !.wants_keys = wants_keys]
        url == [host |-> config.content_host, path |-> "/authorization",
                query |-> << Pair("action", <<"email">>),
                             Pair("response_type", <<"code">>) >>,
                fragment |-> None]
    IN
    /\ oauth_flow(call, url, all_scopes, wants_keys, state, code_verifier, key, rng_ok)
    /\ UNCHANGED <<refresh_token, scoped_keys, access_token_cache,
                   persist_callback, now>>

\* What the generator returns is drawn only when it is asked and answers.
Draws(rng_ok, values) == IF rng_ok THEN values ELSE {CHOOSE v \in values : TRUE}

BeginOAuthFlow ==
    \E scopes \in ScopeLists, wants_keys \in BOOLEAN, rng_ok \in BOOLEAN :
        \E state \in Draws(rng_ok, FlowStates),
           code_verifier \in Draws(rng_ok, CodeVerifiers),
           key \in Draws(rng_ok, KeyPairs),
           all_scopes \in AllScopes(refresh_token, scopes) :
            /\ begin_oauth_flow(scopes, wants_keys, all_scopes, state,
                                code_verifier, key, rng_ok)
            /\ UNCHANGED command_vars

\* ASCII lower case of the host names used here (Url::parse lower-cases the
\* host of an https URL).
ToLower(host) ==
    IF host = "ACCOUNTS.FIREFOX.COM" THEN "accounts.firefox.com" ELSE host

\* Url::parse on the pairing URL: None when it does not parse.
UrlParse(raw) ==
    IF raw.wellformed
    THEN Some([host |-> ToLower(raw.host), fragment |-> raw.fragment])
    ELSE None

\* The pairing URLs begin_pairing_flow is given.
PairingUrls ==
    {[wellformed |-> TRUE, host |-> "accounts.firefox.com",
      fragment |-> Some("channel_id=c&channel_key=k")],
     [wellformed |-> TRUE, host |-> "ACCOUNTS.FIREFOX.COM", fragment |-> None],
     [wellformed |-> TRUE, host |-> "bad.origin.com",
      fragment |-> Some("channel_id=foo&channel_key=bar")],
     [wellformed |-> FALSE, host |-> "", fragment |-> None]}

\* A mutant: the hosts are not compared.
AnyOrigin(url_host, pairing_host) == TRUE

\* The negation of the test url.host_str() != pairing_url.host_str()
SameOrigin(url_host, pairing_host) == url_host = pairing_host

\* A mutant: the pairing flow is begun without a key pair.
begin_pairing_flow_without_keys(pairing_url, scopes, state, code_verifier, key, rng_ok) ==
    LET call == [Call("begin_pairing_flow") EXCEPT !.scopes = scopes,
                                                   !.wants_keys = TRUE,
                                                   !.pairing_url = Some(pairing_url)]
        parsed == UrlParse(pairing_url)
        url == [host |-> config.content_host, path |-> "/pair/supp",
                query |-> <<>>,
                fragment |-> IF IsSome(parsed) THEN Unwrap(parsed).fragment ELSE None]
    IN
    /\ IF ~IsSome(parsed) THEN
           /\ last' = [call EXCEPT !.result = "UrlParseError"]
           /\ UNCHANGED flow_store
       ELSE IF ~SameOrigin(url.host, Unwrap(parsed).host) THEN
           /\ last' = [call EXCEPT !.result = "OriginMismatch"]
           /\ UNCHANGED flow_store
       ELSE
           oauth_flow(call, url, scopes, FALSE, state, code_verifier, key, rng_ok)
    /\ UNCHANGED <<refresh_token, scoped_keys, access_token_cache,
                   persist_callback, now>>

begin_pairing_flow(pairing_url, scopes, state, code_verifier, key, rng_ok) ==
    LET call == [Call("begin_pairing_flow") EXCEPT !.scopes = scopes,
                                                   !.wants_keys = TRUE,
                                                   !.pairing_url = Some(pairing_url)]
        parsed == UrlParse(pairing_url)
        url == [host |-> config.content_host, path |-> "/pair/supp",
                query |-> <<>>,
                fragment |-> IF IsSome(parsed) THEN Unwrap(parsed).fragment ELSE None]
    IN
    /\ IF ~IsSome(parsed) THEN
           /\ last' = [call EXCEPT !.result = "UrlParseError"]
           /\ UNCHANGED flow_store
       ELSE IF ~SameOrigin(url.host, Unwrap(parsed).host) THEN
           /\ last' = [call EXCEPT !.result = "OriginMismatch"]
           /\ UNCHANGED flow_store
       ELSE
           oauth_flow(call, url, scopes, TRUE, state, code_verifier, key, rng_ok)
    /\ UNCHANGED <<refresh_token, scoped_keys, access_token_cache,
                   persist_callback, now>>

\* The scope lists begin_pairing_flow is given.
PairingScopeLists == {<<OLD_SYNC>>}

\* Whether the call gets as far as oauth_flow.
ReachesOAuthFlow(pairing_url) ==
    /\ IsSome(UrlParse(pairing_url))
    /\ SameOrigin(config.content_host, Unwrap(UrlParse(pairing_url)).host)

BeginPairingFlow ==
    \E pairing_url \in PairingUrls, scopes \in PairingScopeLists :
        \E rng_ok \in Draws(ReachesOAuthFlow(pairing_url), BOOLEAN) :
            \E state \in Draws(rng_ok, FlowStates),
               code_verifier \in Draws(rng_ok, CodeVerifiers),
               key \in Draws(rng_ok, KeyPairs) :
                /\ begin_pairing_flow(pairing_url, scopes, state, code_verifier,
                                      key, rng_ok)
                /\ UNCHANGED command_vars

----------------------------------------------------------------------------
(* complete_oauth_flow *)

\* The authorization codes complete_oauth_flow is given.
Codes == {"code1"}
\* The `state` arguments: the generated ones and one that never was.
StateArgs == FlowStates \cup {"st9"}

ScopedKey(scope, k) ==
    [kty |-> "oct", scope |-> scope, k |-> k, kid |-> "1-" \o k]

\* One entry of the decrypted keys object; key = None when the value is not
\* a ScopedKey (serde_json::from_value fails).
KeyEntry(scope, key) == [scope |-> scope, key |-> key]

\* The keys_jwe values of a token response: whether decrypt_keys_jwe succeeds,
\* whether the plaintext is a JSON object, and the object's entries in the
\* order of iteration.
KeysJwes ==
    {[decrypts |-> TRUE, is_object |-> TRUE,
      entries |-> <<KeyEntry(OLD_SYNC, Some(ScopedKey(OLD_SYNC, "k1")))>>],
     [decrypts |-> TRUE, is_object |-> TRUE,
      entries |-> <<KeyEntry(OLD_SYNC, Some(ScopedKey(OLD_SYNC, "k2"))),
                    KeyEntry(PROFILE, None)>>],
     [decrypts |-> TRUE, is_object |-> FALSE, entries |-> <<>>],
     [decrypts |-> FALSE, is_object |-> FALSE, entries |-> <<>>]}

\* The scope field of a token response for a code.
ResponseScopes == {PROFILE, <<"p", SP, "s">>}

\* The access token that comes with a refresh token; it is never kept.
CodeAccessTokens == {"a0"}

\* OAuthTokenResponse of oauth_token_with_code.
CodeResponses ==
    {Failed} \cup
    {[ok |-> TRUE, access_token |-> a, refresh_token |-> r, scope |-> sc,
      expires_in |-> OAUTH_MIN_TIME_LEFT, keys_jwe |-> j] :
        a \in CodeAccessTokens,
        r \in {None} \cup {Some(t) : t \in RefreshTokens},
        sc \in ResponseScopes,
        j \in {None} \cup {Some(x) : x \in KeysJwes}}

\* A mutant: the keys of the response take the place of the keys held.
StoreOnly(keys, entries) ==
    LET good == {i \in 1..Len(entries) : IsSome(entries[i].key)} IN
    [keys |-> [s \in {entries[i].scope : i \in good} |->
                  Unwrap(entries[CHOOSE i \in good : entries[i].scope = s].key)],
     ok |-> good = 1..Len(entries)]

\* A mutant: the entries are stored together once all of them are parsed.
StoreAllOrNone(keys, entries) ==
    LET scopes == {entries[i].scope : i \in 1..Len(entries)}
        latest(s) == CHOOSE i \in 1..Len(entries) :
                         /\ entries[i].scope = s
                         /\ \A j \in (i + 1)..Len(entries) : entries[j].scope # s
    IN
    IF \A i \in 1..Len(entries) : IsSome(entries[i].key)
    THEN [keys |-> [s \in DOMAIN keys \cup scopes |->
                       IF s \in scopes THEN Unwrap(entries[latest(s)].key)
                       ELSE keys[s]],
          ok |-> TRUE]
    ELSE [keys |-> keys, ok |-> FALSE]

\* The loop over the decrypted entries: each is inserted into scoped_keys
\* until one fails to parse; that error ends the call.
RECURSIVE StoreKeys(_, _)
StoreKeys(keys, entries) ==
    IF Len(entries) = 0 THEN [keys |-> keys, ok |-> TRUE]
    ELSE IF ~IsSome(Head(entries).key) THEN [keys |-> keys, ok |-> FALSE]
    ELSE StoreKeys(Insert(keys, Head(entries).scope, Unwrap(Head(entries).key)),
                   Tail(entries))

\* A mutant: a state that is not in the store is given an empty flow.
TakeFlowOrDefault(store, state) ==
    IF state \in DOMAIN store
    THEN Some(store[state])
    ELSE Some([scoped_keys_flow |-> None, code_verifier |-> ""])

\* A mutant: the entry of another pending flow is returned when there is one.
TakeOtherFlow(store, state) ==
    IF state \in DOMAIN store
    THEN Some(store[CHOOSE s \in DOMAIN store :
                        s # state \/ DOMAIN store = {state}])
    ELSE None

\* self.flow_store.remove(state): the entry it returns.
TakeFlow(store, state) == Get(store, state)

\* A mutant: the flow is looked up and left in the store.
KeepFlow(store, state) == store

\* self.flow_store.remove(state): the store afterwards.
RemoveFlow(store, state) == Remove(store, state)

\* HashSet::from_iter(resp.scope.split(' '))
ScopeSet(scope) == Range(Split(scope))

\* A mutant: the old refresh token is replaced without being destroyed.
NoDestroy(old, ok) == <<>>

\* The destroy request for the refresh token held before the call, if any.
DestroyOld(old, ok) ==
    IF IsSome(old)
    THEN <<Request("destroy_oauth_token", Unwrap(old).token, <<>>, "", "", ok)>>
    ELSE <<>>

\* A mutant: the access token of the response is destroyed only once a
\* refresh token is known to have come with it.
DestroyAccessLate(resp, ok) ==
    IF IsSome(resp.refresh_token)
    THEN <<Request("destroy_oauth_token", resp.access_token, <<>>, "", "", ok)>>
    ELSE <<>>

\* The destroy request for the access token of the response.
DestroyAccess(resp, ok) ==
    <<Request("destroy_oauth_token", resp.access_token, <<>>, "", "", ok)>>

\* A mutant: a destroy request that fails fails the call.
FailOnDestroy(result, ok) == IF ok THEN result ELSE "RequestError"

\* `if let Err(err) = client.destroy_oauth_token(..) { log::warn!(..) }`:
\* the failure is logged and the call goes on to its result.
LogAndContinue(result, ok) == result

\* A mutant: a response with keys is accepted although no key pair was sent,
\* and a response without keys although one was.
KeysAnyway(flow, resp) == "Ok"

\* The match on resp.keys_jwe before anything is decrypted: the error it
\* returns, "Ok" when it goes on.
KeysCheck(flow, resp) ==
    IF IsSome(resp.keys_jwe) THEN
        IF IsSome(flow.scoped_keys_flow) THEN "Ok" ELSE "UnrecoverableServerError"
    ELSE
        IF IsSome(flow.scoped_keys_flow) THEN "TokenWithoutKeys" ELSE "Ok"

\* The outcomes of a best-effort destroy request that is sent (`sent`): it
\* succeeds or fails, and the failure is logged and ignored.
DestroyOutcomes(sent) == IF sent THEN BOOLEAN ELSE {TRUE}

complete_oauth_flow(code, state, resp) ==
    LET call == [Call("complete_oauth_flow") EXCEPT !.code = code, !.state = state]
        taken == TakeFlow(flow_store, state)
    IN
    /\ UNCHANGED <<access_token_cache, persist_callback, now>>
    /\ IF ~IsSome(taken) THEN
           /\ last' = [call EXCEPT !.result = "UnknownOAuthState"]
           /\ UNCHANGED <<refresh_token, scoped_keys, flow_store>>
       ELSE
           LET oauth_flow_ == Unwrap(taken)
               req == Request("oauth_token_with_code", "", <<>>, code,
                              oauth_flow_.code_verifier, resp.ok)
               sent == [call EXCEPT !.reqs = <<req>>]
               got == [sent EXCEPT !.resp = Some(resp)]
               keys_check == KeysCheck(oauth_flow_, resp)
               jwe == Unwrap(resp.keys_jwe)
               stored == IF IsSome(resp.keys_jwe)
                         THEN StoreKeys(scoped_keys, jwe.entries)
                         ELSE [keys |-> scoped_keys, ok |-> TRUE]
               new_token == Some([token |-> Unwrap(resp.refresh_token),
                                  scopes |-> ScopeSet(resp.scope)])
           IN
           /\ flow_store' = RemoveFlow(flow_store, state)
           /\ IF ~resp.ok THEN
                  /\ last' = [sent EXCEPT !.result = "RequestError"]
                  /\ UNCHANGED <<refresh_token, scoped_keys>>
              ELSE IF keys_check # "Ok" THEN
                  /\ last' = [got EXCEPT !.result = keys_check]
                  /\ UNCHANGED <<refresh_token, scoped_keys>>
              ELSE IF IsSome(resp.keys_jwe) /\ ~jwe.decrypts THEN
                  /\ last' = [got EXCEPT !.result = "JwCryptoError"]
                  /\ UNCHANGED <<refresh_token, scoped_keys>>
              ELSE IF IsSome(resp.keys_jwe) /\ ~jwe.is_object THEN
                  /\ last' = [got EXCEPT !.result = "JsonError"]
                  /\ UNCHANGED <<refresh_token, scoped_keys>>
              ELSE IF ~stored.ok THEN
                  /\ scoped_keys' = stored.keys
                  /\ last' = [got EXCEPT !.result = "JsonError"]
                  /\ UNCHANGED refresh_token
              ELSE IF ~IsSome(resp.refresh_token) THEN
                  \E destroy1_ok \in DestroyOutcomes(TRUE) :
                      /\ scoped_keys' = stored.keys
                      /\ last' = [got EXCEPT
                                    !.result = LogAndContinue(
                                                   "RefreshTokenNotPresent",
                                                   destroy1_ok),
                                    !.reqs = <<req>> \o DestroyAccess(resp, destroy1_ok)]
                      /\ UNCHANGED refresh_token
              ELSE
                  \E destroy1_ok \in DestroyOutcomes(TRUE),
                     destroy2_ok \in DestroyOutcomes(IsSome(refresh_token)) :
                      /\ scoped_keys' = stored.keys
                      /\ refresh_token' = new_token
                      /\ last' = [got EXCEPT
                                    !.result = LogAndContinue(
                                                   "Ok",
                                                   destroy1_ok /\ destroy2_ok),
                                    !.reqs = <<req>>
                                             \o DestroyAccess(resp, destroy1_ok)
                                             \o DestroyOld(refresh_token, destroy2_ok),
                                    !.persisted =
                                        maybe_call_persist_callback(
                                            StateV2(new_token, stored.keys,
                                                    last_handled_command,
                                                    commands_data))]

CompleteOAuthFlow ==
    \E code \in Codes, state \in StateArgs :
        \E resp \in Draws(state \in DOMAIN flow_store, CodeResponses) :
            complete_oauth_flow(code, state, resp) /\ UNCHANGED command_vars

---------------------------------------------------------------------------------------------------------------------------------------------------
(* get_profile *)

\* util::now: the clock in milliseconds.
NowMillis(t) == t * 1000

\* Client::profile: a failed request, a 304 (no body), or a profile with or
\* without an etag.
ProfileAnswers ==
    {[ok |-> FALSE, body |-> None], [ok |-> TRUE, body |-> None]} \cup
    {[ok |-> TRUE, body |-> Some([response |-> "profile1", etag |-> etag])] :
        etag \in {None, Some("e1")}}

\* self.get_access_token(scopes::PROFILE)? inside get_profile: the result,
\* the token, the cache and the clock it leaves, and the request it sent.
profile_access_token(resp, d) ==
    LET cached == Get(access_token_cache, PROFILE)
        stays(result, token) ==
            [result |-> result, token |-> token, cache |-> access_token_cache,
             now |-> now, reqs |-> <<>>]
        req == Request("oauth_token_with_refresh_token",
                       Unwrap(refresh_token).token, <<PROFILE>>, "", "", resp.ok)
        token_info == [scope |-> resp.scope,
                       token |-> resp.access_token,
                       key |-> Get(scoped_keys, PROFILE),
                       expires_at |-> ExpiresAt(now + d, resp.expires_in)]
    IN
    IF IsSome(cached) /\ CacheFresh(Unwrap(cached), now)
    THEN stays("Ok", Unwrap(cached).token)
    ELSE IF ~IsSome(refresh_token) \/ ~GrantsScope(Unwrap(refresh_token), PROFILE)
    THEN stays("NoCachedToken", "")
    ELSE IF ~resp.ok
    THEN [result |-> "RequestError", token |-> "", cache |-> access_token_cache,
          now |-> now + d, reqs |-> <<req>>]
    ELSE [result |-> "Ok", token |-> resp.access_token,
          cache |-> Insert(access_token_cache, PROFILE, token_info),
          now |-> now + d, reqs |-> <<req>>]

\* A mutant: a cached profile as old as the threshold is still served.
ProfileFreshAtThreshold(cached, t) ==
    NowMillis(t) <= cached.cached_at + PROFILE_FRESHNESS_THRESHOLD

\* The cached profile is served only while it is younger than the threshold.
ProfileFresh(cached, t) ==
    NowMillis(t) < cached.cached_at + PROFILE_FRESHNESS_THRESHOLD

get_profile(ignore_cache, resp, d, answer) ==
    LET call == [Call("get_profile") EXCEPT !.args = <<ignore_cache>>]
        got == profile_access_token(resp, d)
        etag == IF IsSome(profile_cache) THEN Some(Unwrap(profile_cache).etag)
                ELSE None
        req == [kind |-> "profile", token |-> got.token, etag |-> etag,
                ok |-> answer.ok]
        sent == [call EXCEPT !.reqs = got.reqs \o <<req>>,
                             !.args = <<ignore_cache, answer>>]
    IN
    /\ now' = got.now
    /\ access_token_cache' = got.cache
    /\ UNCHANGED <<refresh_token, scoped_keys, flow_store, persist_callback,
                   last_handled_command, commands_data, highest_handled,
                   delivered, component, config>>
    /\ IF got.result # "Ok" THEN
           /\ last' = [call EXCEPT !.result = got.result, !.reqs = got.reqs]
           /\ UNCHANGED profile_cache
       ELSE IF /\ IsSome(profile_cache) /\ ~ignore_cache
               /\ ProfileFresh(Unwrap(profile_cache), got.now) THEN
           /\ last' = [call EXCEPT !.reqs = got.reqs, !.hit = TRUE,
                                   !.profile = Some(Unwrap(profile_cache).response)]
           /\ UNCHANGED profile_cache
       ELSE IF ~answer.ok THEN
           /\ last' = [sent EXCEPT !.result = "RequestError"]
           /\ UNCHANGED profile_cache
       ELSE IF IsSome(answer.body) THEN
           /\ profile_cache' =
                  IF IsSome(Unwrap(answer.body).etag)
                  THEN Some([response |-> Unwrap(answer.body).response,
                             cached_at |-> NowMillis(got.now),
                             etag |-> Unwrap(Unwrap(answer.body).etag)])
                  ELSE profile_cache
           /\ last' = [sent EXCEPT !.profile = Some(Unwrap(answer.body).response)]
       ELSE
           /\ last' = IF IsSome(profile_cache)
                      THEN [sent EXCEPT
                              !.profile = Some(Unwrap(profile_cache).response)]
                      ELSE [sent EXCEPT !.result = "UnrecoverableServerError"]
           /\ UNCHANGED profile_cache

\* Whether get_profile gets as far as the request for the profile, given
\* the outcome of its token request.
SendsProfileRequest(ignore_cache, resp, d) ==
    /\ profile_access_token(resp, d).result = "Ok"
    /\ ~(/\ IsSome(profile_cache) /\ ~ignore_cache
         /\ ProfileFresh(Unwrap(profile_cache), profile_access_token(resp, d).now))

\* The embedder waits until the cached profile is about to go stale, or a
\* second longer.
Sleep ==
    /\ now <= MaxNow
    /\ \E seconds \in {PROFILE_FRESHNESS_THRESHOLD \div 1000 - 1,
                        PROFILE_FRESHNESS_THRESHOLD \div 1000} :
           now' = now + seconds
    /\ last' = Call("sleep")
    /\ UNCHANGED <<refresh_token, scoped_keys, access_token_cache, flow_store,
                   persist_callback, command_vars>>

GetProfile ==
    \E ignore_cache \in BOOLEAN :
        \E resp \in Draws(SendsRefreshRequest(PROFILE), RefreshResponses(PROFILE)) :
            \E d \in Draws(SendsRefreshRequest(PROFILE), Latencies) :
                \E answer \in Draws(SendsProfileRequest(ignore_cache, resp, d),
                                    ProfileAnswers) :
                    get_profile(ignore_cache, resp, d, answer)

----------------------------------------------------------------------------
(* The command channel: poll_remote_commands and handle_push_message *)

\* send_tab::COMMAND_NAME
COMMAND_NAME == "send-tab"

\* The private send-tab keys the generator may produce.
SendTabKeys == {"kA", "kB"}

\* serde_json::to_string(&keys) and serde_json::from_str of the stored blob.
KeysToString(keys) == <<"keys", keys>>
KeysFromStr(blob) == IF Len(blob) = 2 /\ blob[1] = "keys" THEN Some(blob[2]) ELSE None

\* Payloads of command messages: an EncryptedSendTabPayload for one key, or
\* a JSON value that is none.
Encrypted(key, tab) == [encrypted |-> TRUE, key |-> key, tab |-> tab]
NotEncrypted == [encrypted |-> FALSE, key |-> "", tab |-> ""]

\* CommandData of the command the server holds at an index.
Mailbox(i) ==
    CASE i % 4 = 1 -> [command |-> COMMAND_NAME, sender |-> Some("d1"),
                       payload |-> Encrypted("kA", "tab1")]
      [] i % 4 = 2 -> [command |-> "open-uri", sender |-> None,
                       payload |-> NotEncrypted]
      [] i % 4 = 3 -> [command |-> COMMAND_NAME, sender |-> Some("d9"),
                       payload |-> NotEncrypted]
      [] OTHER     -> [command |-> COMMAND_NAME, sender |-> None,
                       payload |-> Encrypted("kA", "tab4")]

\* PendingCommand: the messages lo .. hi of the mailbox, in server order.
Messages(lo, hi) == [i \in 1..(hi - lo + 1) |-> [index |-> lo + i - 1,
                                                  data |-> Mailbox(lo + i - 1)]]

\* A request of the device endpoints, with whether it succeeded.
DeviceRequest(kind, token, body, ok) ==
    [kind |-> kind, token |-> token, body |-> body, ok |-> ok]

\* PendingCommandsResponse, or a failed request.
PendingFailed == [ok |-> FALSE, index |-> 0, messages |-> <<>>]

\* Every response: any run of messages, whatever was asked, with an index
\* that is 0, the highest index returned, or the server's high-water mark.
PendingResponses ==
    {PendingFailed} \cup
    UNION {{[ok |-> TRUE, index |-> i, messages |-> Messages(lo, hi)] :
               i \in {0, hi, MaxIndex}} :
           lo \in 1..MaxIndex, hi \in 0..MaxIndex}

\* The responses of a server that returns only messages at or above the
\* requested index and reports the highest index it returned.
HonestResponses(asked) ==
    {PendingFailed} \cup
    {[ok |-> TRUE, index |-> asked - 1, messages |-> <<>>]} \cup
    {[ok |-> TRUE, index |-> hi, messages |-> Messages(lo, hi)] :
        lo \in asked..MaxIndex, hi \in asked..MaxIndex}

\* Vec<DeviceResponse> of GET /account/devices (ids only), or a failed request.
DevicesResponses == {[ok |-> FALSE, devices |-> {}], [ok |-> TRUE, devices |-> {"d1"}]}

\* A handler that takes every message for a tab.
AcceptAnyCommand(command_data, devices) ==
    [result |-> "Ok", sender |-> None, tab |-> command_data.payload.tab]

\* handle_command: the sender looked up among the devices and the decrypted
\* tab, or the error that makes handle_commands skip the message.
handle_command(command_data, devices) ==
    LET sender == IF IsSome(command_data.sender)
                     /\ Unwrap(command_data.sender) \in devices
                  THEN command_data.sender ELSE None
        stored == Get(commands_data, COMMAND_NAME)
        key == IF IsSome(stored) THEN KeysFromStr(Unwrap(stored)) ELSE None
        skip(error) == [result |-> error, sender |-> None, tab |-> ""]
    IN
    IF command_data.command # COMMAND_NAME THEN skip("UnknownCommand")
    ELSE IF ~IsSome(stored) THEN skip("IllegalState")
    ELSE IF ~IsSome(key) THEN skip("JsonError")
    ELSE IF ~command_data.payload.encrypted THEN skip("JsonError")
    ELSE IF command_data.payload.key # Unwrap(key) THEN skip("CryptoError")
    ELSE [result |-> "Ok", sender |-> sender, tab |-> command_data.payload.tab]

\* AccountEvent::TabReceived
TabReceived(handled) == [event |-> "TabReceived", sender |-> handled.sender,
                         tab |-> handled.tab]

\* handle_commands, past get_devices: the events of the messages that did
\* not fail, in the order of the messages.
RECURSIVE handle_commands(_, _)
handle_commands(messages, devices) ==
    IF messages = <<>> THEN <<>>
    ELSE LET handled == handle_command(Head(messages).data, devices)
         IN (IF handled.result = "Ok" THEN <<TabReceived(handled)>> ELSE <<>>)
            \o handle_commands(Tail(messages), devices)

\* A poll that counted on from its own base instead.
KeepIndex(old, index) == Some(IF IsSome(old) THEN Unwrap(old) ELSE 0)

\* last_handled_command = Some(pending_commands.index), whatever the stored
\* index is.
TakeIndex(old, index) == Some(index)

\* A poll that asks again for the last handled index.
KeepBase(index) == index

\* What is asked of the server: one past the last handled index.
NextIndex(index) == index + 1

Max(a, b) == IF a >= b THEN a ELSE b

\* A mutant: a device list that cannot be fetched is taken to be empty and
\* the messages are handled without it.
poll_remote_commands_without_devices(op, resp, devs) ==
    LET call == Call(op)
        last_command_index ==
            IF IsSome(last_handled_command) THEN Unwrap(last_handled_command) ELSE 0
        token == Unwrap(refresh_token).token
        pending == DeviceRequest("pending_commands", token,
                                 NextIndex(last_command_index), resp.ok)
        devices == DeviceRequest("devices", token, None, devs.ok)
        index == TakeIndex(last_handled_command, resp.index)
    IN
    /\ UNCHANGED <<refresh_token, scoped_keys, access_token_cache, flow_store,
                   persist_callback, now, commands_data, profile_cache, component,
                   config>>
    /\ IF ~IsSome(refresh_token) THEN
           /\ last' = [call EXCEPT !.result = "NoRefreshToken"]
           /\ UNCHANGED <<last_handled_command, highest_handled>>
       ELSE IF ~resp.ok THEN
           /\ last' = [call EXCEPT !.result = "RequestError", !.reqs = <<pending>>]
           /\ UNCHANGED <<last_handled_command, highest_handled>>
       ELSE IF Len(resp.messages) = 0 THEN
           /\ last' = [call EXCEPT !.reqs = <<pending>>, !.resp = Some(resp)]
           /\ UNCHANGED <<last_handled_command, highest_handled>>
       ELSE
           /\ last_handled_command' = index
           /\ highest_handled' = Max(highest_handled, Unwrap(index))
           /\ last' = [call EXCEPT
                         !.reqs = <<pending, devices>>,
                         !.resp = Some(resp),
                         !.events = handle_commands(resp.messages, devs.devices),
                         !.persisted =
                             maybe_call_persist_callback(
                                 StateV2(refresh_token, scoped_keys, index,
                                         commands_data))]

\* poll_remote_commands, also the body of handle_push_message: resp answers
\* the pending-commands request and devs the get_devices request of
\* handle_commands, when they are sent.
poll_remote_commands(op, resp, devs) ==
    LET call == Call(op)
        last_command_index ==
            IF IsSome(last_handled_command) THEN Unwrap(last_handled_command) ELSE 0
        token == Unwrap(refresh_token).token
        pending == DeviceRequest("pending_commands", token,
                                 NextIndex(last_command_index), resp.ok)
        devices == DeviceRequest("devices", token, None, devs.ok)
        index == TakeIndex(last_handled_command, resp.index)
    IN
    /\ UNCHANGED <<refresh_token, scoped_keys, access_token_cache, flow_store,
                   persist_callback, now, commands_data, profile_cache, component,
                   config>>
    /\ IF ~IsSome(refresh_token) THEN
           /\ last' = [call EXCEPT !.result = "NoRefreshToken"]
           /\ UNCHANGED <<last_handled_command, highest_handled>>
       ELSE IF ~resp.ok THEN
           /\ last' = [call EXCEPT !.result = "RequestError", !.reqs = <<pending>>]
           /\ UNCHANGED <<last_handled_command, highest_handled>>
       ELSE IF Len(resp.messages) = 0 THEN
           /\ last' = [call EXCEPT !.reqs = <<pending>>, !.resp = Some(resp)]
           /\ UNCHANGED <<last_handled_command, highest_handled>>
       ELSE IF ~devs.ok THEN
           /\ last' = [call EXCEPT !.result = "RequestError",
                                   !.reqs = <<pending, devices>>,
                                   !.resp = Some(resp)]
           /\ UNCHANGED <<last_handled_command, highest_handled>>
       ELSE
           /\ last_handled_command' = index
           /\ highest_handled' = Max(highest_handled, Unwrap(index))
           /\ last' = [call EXCEPT
                         !.reqs = <<pending, devices>>,
                         !.resp = Some(resp),
                         !.events = handle_commands(resp.messages, devs.devices),
                         !.persisted =
                             maybe_call_persist_callback(
                                 StateV2(refresh_token, scoped_keys, index,
                                         commands_data))]

\* The requests a poll gets to send in the current state.
SendsPending == IsSome(refresh_token)
SendsDevices(resp) == SendsPending /\ resp.ok /\ Len(resp.messages) > 0

\* The indices of the messages a poll returns an event for.
Deliveries(resp, devs) ==
    IF SendsDevices(resp) /\ devs.ok
    THEN {resp.messages[i].index : i \in
             {j \in 1..Len(resp.messages) :
                 handle_command(resp.messages[j].data, devs.devices).result = "Ok"}}
    ELSE {}

\* A poll against a server that may answer with any of `responses`; the
\* events per command index are counted when `counted`.
Poll(op, responses, counted) ==
    \E resp \in Draws(SendsPending, responses) :
        \E devs \in Draws(SendsDevices(resp), DevicesResponses) :
            /\ poll_remote_commands(op, resp, devs)
            /\ delivered' =
                   IF counted
                   THEN [i \in 1..MaxIndex |->
                            delivered[i]
                            + (IF i \in Deliveries(resp, devs) THEN 1 ELSE 0)]
                   ELSE delivered

PollRemoteCommands == Poll("poll_remote_commands", PendingResponses, FALSE)

\* handle_push_message: the only payload, CommandReceived, polls.
HandlePushMessage == Poll("handle_push_message", PendingResponses, FALSE)

\* The index the next poll asks the server for.
AskedNext ==
    NextIndex(IF IsSome(last_handled_command) THEN Unwrap(last_handled_command)
              ELSE 0)

\* The same two calls against the honest server.
HonestPollRemoteCommands ==
    Poll("poll_remote_commands", HonestResponses(AskedNext), TRUE)

HonestHandlePushMessage ==
    Poll("handle_push_message", HonestResponses(AskedNext), TRUE)

----------------------------------------------------------------------------
(* The device record: updates, commands, send-tab *)

\* A mutant: fetching the device list forgets the stored command data.
get_devices_forgetting(devs) ==
    /\ last' = [Call("get_devices") EXCEPT
                  !.result = IF ~IsSome(refresh_token) THEN "NoRefreshToken"
                             ELSE IF devs.ok THEN "Ok" ELSE "RequestError"]
    /\ commands_data' = EmptyMap
    /\ UNCHANGED <<refresh_token, scoped_keys, access_token_cache, flow_store,
                   persist_callback, now, last_handled_command, profile_cache,
                   highest_handled, delivered, component, config>>

\* get_devices
get_devices(devs) ==
    LET call == Call("get_devices") IN
    /\ last' = IF ~IsSome(refresh_token)
               THEN [call EXCEPT !.result = "NoRefreshToken"]
               ELSE [call EXCEPT
                       !.result = IF devs.ok THEN "Ok" ELSE "RequestError",
                       !.reqs = <<DeviceRequest("devices",
                                                Unwrap(refresh_token).token,
                                                None, devs.ok)>>,
                       !.resp = Some(devs)]
    /\ UNCHANGED <<refresh_token, scoped_keys, access_token_cache, flow_store,
                   persist_callback, now, command_vars>>

GetDevices ==
    \E devs \in Draws(IsSome(refresh_token), DevicesResponses) : get_devices(devs)

\* The devices a command may be sent to, with the send-tab keys each one
\* advertises.
Targets == {[id |-> "d1", keys |-> Some("kB")], [id |-> "d2", keys |-> None]}

\* invoke_command, as the tail of the call `call`.
invoke_command(call, command, target, payload, ok) ==
    /\ last' = IF ~IsSome(refresh_token)
               THEN [call EXCEPT !.result = "NoRefreshToken"]
               ELSE [call EXCEPT
                       !.result = IF ok THEN "Ok" ELSE "RequestError",
                       !.reqs = <<DeviceRequest("invoke_command",
                                                Unwrap(refresh_token).token,
                                                [command |-> command,
                                                 target |-> target.id,
                                                 payload |-> payload], ok)>>]
    /\ UNCHANGED <<refresh_token, scoped_keys, access_token_cache, flow_store,
                   persist_callback, now, command_vars>>

InvokeCommand ==
    \E target \in Targets, ok \in Draws(IsSome(refresh_token), BOOLEAN) :
        invoke_command(Call("invoke_command"), "open-uri", target,
                       NotEncrypted, ok)

\* DeviceUpdateRequest: a field is None when the builder left it out,
\* Some(None) when it is cleared and Some(Some(v)) when it is set to v.
DeviceUpdate(push_subscription, display_name, available_commands) ==
    [push_subscription |-> push_subscription, display_name |-> display_name,
     available_commands |-> available_commands]

\* A mutant: the update is sent with an empty token when none is held.
update_device_unchecked(call, update, ok) ==
    /\ last' = [call EXCEPT
                  !.reqs = <<DeviceRequest("update_device",
                                           IF IsSome(refresh_token)
                                           THEN Unwrap(refresh_token).token
                                           ELSE "", update, TRUE)>>]
    /\ UNCHANGED <<refresh_token, scoped_keys, access_token_cache, flow_store,
                   persist_callback, now, last_handled_command, profile_cache,
                   highest_handled, delivered, component, config>>

\* update_device, as the tail of the call `call`.
update_device(call, update, ok) ==
    /\ last' = IF ~IsSome(refresh_token)
               THEN [call EXCEPT !.result = "NoRefreshToken"]
               ELSE [call EXCEPT
                       !.result = IF ok THEN "Ok" ELSE "RequestError",
                       !.reqs = <<DeviceRequest("update_device",
                                                Unwrap(refresh_token).token,
                                                update, ok)>>]
    /\ UNCHANGED <<refresh_token, scoped_keys, access_token_cache, flow_store,
                   persist_callback, now, last_handled_command, profile_cache,
                   highest_handled, delivered, component, config>>

\* Whether the update request of a device call succeeds, when it is sent.
UpdateOutcomes == Draws(IsSome(refresh_token), BOOLEAN)

SetPushSubscription ==
    \E ok \in UpdateOutcomes :
        /\ update_device(Call("set_push_subscription"),
                         DeviceUpdate(Some(Some("sub1")), None, None), ok)
        /\ UNCHANGED commands_data

SetDisplayName ==
    \E ok \in UpdateOutcomes :
        /\ update_device(Call("set_display_name"),
                         DeviceUpdate(None, Some(Some("name1")), None), ok)
        /\ UNCHANGED commands_data

ClearDisplayName ==
    \E ok \in UpdateOutcomes :
        /\ update_device(Call("clear_display_name"),
                         DeviceUpdate(None, Some(None), None), ok)
        /\ UNCHANGED commands_data

\* A mutant: the update carries the command and the stored command data.
register_command_keeping(call, command, value, ok) ==
    update_device(call,
                  DeviceUpdate(None, None,
                               Some(Some(Insert(commands_data, command, value)))),
                  ok)

\* register_command: the update carries this command alone.
register_command(call, command, value, ok) ==
    update_device(call,
                  DeviceUpdate(None, None,
                               Some(Some(Insert(EmptyMap, command, value)))), ok)

RegisterCommand ==
    \E command \in {"open-uri", COMMAND_NAME}, value \in {<<"v1">>, <<"v2">>},
       ok \in UpdateOutcomes :
        /\ register_command([Call("register_command")
                                EXCEPT !.args = <<command, value>>],
                            command, value, ok)
        /\ UNCHANGED commands_data

\* unregister_command: the update carries an empty map, whatever the name.
unregister_command(call, command, ok) ==
    update_device(call, DeviceUpdate(None, None, Some(Some(EmptyMap))), ok)

UnregisterCommand ==
    \E command \in {"open-uri", COMMAND_NAME, "never"}, ok \in UpdateOutcomes :
        /\ unregister_command([Call("unregister_command")
                                  EXCEPT !.args = <<command>>], command, ok)
        /\ UNCHANGED commands_data

ClearCommands ==
    \E ok \in UpdateOutcomes :
        /\ update_device(Call("clear_commands"),
                         DeviceUpdate(None, None, Some(None)), ok)
        /\ UNCHANGED commands_data

\* The alphabet of base64::URL_SAFE_NO_PAD, in the order of the values 0 .. 63.
URL_SAFE_NO_PAD ==
    "ABCDEFGHIJKLMNOPQRSTUVWXYZabcdefghijklmnopqrstuvwxyz0123456789-_"

\* The i-th character of a string.
CharAt(s, i) == SubSeq(s, i, i)

\* The value of a character of the alphabet.
Sextet(c) ==
    (CHOOSE i \in 1..Len(URL_SAFE_NO_PAD) : CharAt(URL_SAFE_NO_PAD, i) = c) - 1

\* The bytes of a string of alphabet characters: three of every four
\* characters, two of a last three and one of a last two, the bits left over
\* dropped.
RECURSIVE DecodeChunks(_)
DecodeChunks(s) ==
    LET v(i) == Sextet(CharAt(s, i)) IN
    IF Len(s) = 0 THEN <<>>
    ELSE IF Len(s) >= 4 THEN
        LET n == v(1) * 262144 + v(2) * 4096 + v(3) * 64 + v(4) IN
        <<n \div 65536, (n \div 256) % 256, n % 256>>
        \o DecodeChunks(SubSeq(s, 5, Len(s)))
    ELSE IF Len(s) = 3 THEN
        LET n == v(1) * 4096 + v(2) * 64 + v(3) IN
        <<n \div 1024, (n \div 4) % 256>>
    ELSE <<(v(1) * 64 + v(2)) \div 16>>

\* base64::decode_config(input, base64::URL_SAFE_NO_PAD): the bytes, or none
\* for a character outside the alphabet or a length no encoding has.
decode_config(input) ==
    IF \E i \in 1..Len(input) :
           \A j \in 1..Len(URL_SAFE_NO_PAD) :
               CharAt(input, i) # CharAt(URL_SAFE_NO_PAD, j)
    THEN None
    ELSE IF Len(input) % 4 = 1 THEN None
    ELSE Some(DecodeChunks(input))

\* str::splitn(n, pat).collect::<Vec<_>>(): at most n pieces, the last one
\* holding the rest of the string.
RECURSIVE splitn(_, _, _)
splitn(s, n, pat) ==
    LET found == {i \in 1..Len(s) : CharAt(s, i) = pat} IN
    IF n <= 1 \/ found = {} THEN <<s>>
    ELSE LET first == CHOOSE i \in found : \A j \in found : i <= j IN
         <<SubSeq(s, 1, first - 1)>>
         \o splitn(SubSeq(s, first + 1, Len(s)), n - 1, pat)

\* `oldsync_key.kid.splitn(2, '-').collect::<Vec<_>>()[1]`: the second piece;
\* indexing a Vec of one piece panics.
kxcs_indexed(pieces) ==
    IF Len(pieces) > 1 THEN [result |-> "Ok", kxcs |-> pieces[2]]
    ELSE [result |-> "Panic", kxcs |-> ""]

\* sync_keys_as_send_tab_kek: the key-encrypting key made of the bytes of k
\* and of the part of kid after its first '-', or the error of
\* get_scoped_key or of a decode, or the panic of the index.
sync_keys_as_send_tab_kek ==
    LET key == Get(scoped_keys, OLD_SYNC)
        fails(result) == [result |-> result, kek |-> <<>>]
    IN
    IF ~IsSome(key) THEN fails("NoCachedKey")
    ELSE LET ksync == decode_config(Unwrap(key).k)
             kxcs == kxcs_indexed(splitn(Unwrap(key).kid, 2, "-"))
             decoded == decode_config(kxcs.kxcs)
         IN
         IF ~IsSome(ksync) THEN fails("Base64Error")
         ELSE IF kxcs.result # "Ok" THEN fails(kxcs.result)
         ELSE IF ~IsSome(decoded) THEN fails("Base64Error")
         ELSE [result |-> "Ok", kek |-> <<Unwrap(ksync), Unwrap(decoded)>>]

\* send_tab: build_send_command needs the keys the target advertises.
send_tab(target, ok) ==
    LET call == Call("send_tab")
        kek == sync_keys_as_send_tab_kek
    IN
    IF kek.result # "Ok" THEN
        /\ last' = [call EXCEPT !.result = kek.result]
        /\ UNCHANGED <<refresh_token, scoped_keys, access_token_cache, flow_store,
                       persist_callback, now, command_vars>>
    ELSE IF ~IsSome(target.keys) THEN
        /\ last' = [call EXCEPT !.result = "SendTabError"]
        /\ UNCHANGED <<refresh_token, scoped_keys, access_token_cache, flow_store,
                       persist_callback, now, command_vars>>
    ELSE invoke_command(call, COMMAND_NAME, target,
                        Encrypted(Unwrap(target.keys), "tab0"), ok)

SendTab ==
    \E target \in Targets :
        \E ok \in Draws(/\ IsSome(refresh_token)
                        /\ sync_keys_as_send_tab_kek.result = "Ok"
                        /\ IsSome(target.keys), BOOLEAN) :
            send_tab(target, ok)

\* An account that never finds its keys stored.
NoStoredKeys(data) == None

\* self.state.commands_data.get(send_tab::COMMAND_NAME)
StoredKeys(data) == Get(data, COMMAND_NAME)

\* PublicSendTabKeys of the private keys, and as_command_data: the bundle
\* encrypted with the key-encrypting key.
PublicKeys(own_keys) == <<"public", own_keys>>
AsCommandData(public_keys, kek) == <<"bundle", public_keys, kek>>

\* A registration that leaves persisting to a later call.
PersistLast(data, generated) == <<>>

\* A registration that persists on every call.
PersistAlways(data, generated) ==
    maybe_call_persist_callback(
        StateV2(refresh_token, scoped_keys, last_handled_command, data))

\* The persist callback of ensure_send_tab_registered: invoked inside the arm
\* that generated the keys, before the key-encrypting key is derived.
PersistFresh(data, generated) ==
    IF generated
    THEN maybe_call_persist_callback(
             StateV2(refresh_token, scoped_keys, last_handled_command, data))
    ELSE <<>>

\* ensure_send_tab_registered: fresh are the keys the generator returns when
\* it is asked and rng_ok, ok the outcome of the device update when sent.
ensure_send_tab_registered(rng_ok, fresh, ok) ==
    LET call == Call("ensure_send_tab_registered")
        stored == StoredKeys(commands_data)
        parsed == IF IsSome(stored) THEN KeysFromStr(Unwrap(stored)) ELSE None
        generated == ~IsSome(stored)
        own_keys == IF generated THEN fresh ELSE Unwrap(parsed)
        data == IF generated
                THEN Insert(commands_data, COMMAND_NAME, KeysToString(fresh))
                ELSE commands_data
        kek == sync_keys_as_send_tab_kek
        command_data == AsCommandData(PublicKeys(own_keys), kek.kek)
        went == [call EXCEPT !.persisted = PersistFresh(data, generated)]
    IN
    IF ~generated /\ ~IsSome(parsed) THEN
        /\ last' = [call EXCEPT !.result = "JsonError"]
        /\ UNCHANGED <<refresh_token, scoped_keys, access_token_cache, flow_store,
                       persist_callback, now, command_vars>>
    ELSE IF generated /\ ~rng_ok THEN
        /\ last' = [call EXCEPT !.result = "RngError"]
        /\ UNCHANGED <<refresh_token, scoped_keys, access_token_cache, flow_store,
                       persist_callback, now, command_vars>>
    ELSE
        /\ commands_data' = data
        /\ IF kek.result # "Ok"
           THEN /\ last' = [went EXCEPT !.result = kek.result]
                /\ UNCHANGED <<refresh_token, scoped_keys, access_token_cache,
                               flow_store, persist_callback, now,
                               last_handled_command, profile_cache,
                               highest_handled, delivered, component, config>>
           ELSE register_command(went, COMMAND_NAME, command_data, ok)

EnsureSendTabRegistered ==
    \E rng_ok \in Draws(~IsSome(StoredKeys(commands_data)), BOOLEAN) :
        \E fresh \in Draws(rng_ok /\ ~IsSome(StoredKeys(commands_data)),
                           SendTabKeys),
           ok \in Draws(/\ IsSome(refresh_token)
                        /\ sync_keys_as_send_tab_kek.result = "Ok", BOOLEAN) :
            ensure_send_tab_registered(rng_ok, fresh, ok)

----------------------------------------------------------------------------
(* to_json and from_json *)

\* The members of a JSON object, written in the order `order` of the keys.
Members(map, order) == [i \in 1..Len(order) |-> <<order[i], map[order[i]]>>]

\* The map read back from the members of a JSON object.
RECURSIVE ReadMembers(_)
ReadMembers(members) ==
    IF members = <<>> THEN EmptyMap
    ELSE Insert(ReadMembers(SubSeq(members, 1, Len(members) - 1)),
                members[Len(members)][1], members[Len(members)][2])

\* The orders in which one instance may iterate over the scopes of its
\* refresh token, its scoped keys and its commands data.
IterationOrders(state) ==
    [scopes : IF IsSome(state.refresh_token)
              THEN Orders(Unwrap(state.refresh_token).scopes) ELSE {<<>>},
     scoped_keys : Orders(DOMAIN state.scoped_keys),
     commands_data : Orders(DOMAIN state.commands_data)]

\* state_persistence::state_to_json: the versioned document of a StateV2,
\* the sets and maps written in the iteration order of the instance.
state_to_json(state, order) ==
    [schema_version |-> 2,
     config |-> config,
     refresh_token |->
         IF IsSome(state.refresh_token)
         THEN Some([token |-> Unwrap(state.refresh_token).token,
                    scopes |-> order.scopes])
         ELSE None,
     scoped_keys |-> Members(state.scoped_keys, order.scoped_keys),
     last_handled_command |-> state.last_handled_command,
     commands_data |-> Members(state.commands_data, order.commands_data)]

\* state_persistence::state_from_json: the StateV2 of a version 2 document,
\* none for another version.
state_from_json(data) ==
    IF data.schema_version # 2 THEN None
    ELSE Some(StateV2(
             IF IsSome(data.refresh_token)
             THEN Some([token |-> Unwrap(data.refresh_token).token,
                        scopes |-> Range(Unwrap(data.refresh_token).scopes)])
             ELSE None,
             ReadMembers(data.scoped_keys),
             data.last_handled_command,
             ReadMembers(data.commands_data)))

\* A mutant: the account is written without its scoped keys.
to_json_without_keys(order) ==
    state_to_json(StateV2(refresh_token, EmptyMap, last_handled_command,
                          commands_data),
                  [order EXCEPT !.scoped_keys = <<>>])

\* A to_json that writes the account without its command channel.
to_json_without_commands(order) ==
    state_to_json(StateV2(refresh_token, scoped_keys, None, EmptyMap),
                  [order EXCEPT !.commands_data = <<>>])

\* FirefoxAccount::to_json
to_json(order) ==
    state_to_json(StateV2(refresh_token, scoped_keys, last_handled_command,
                          commands_data), order)

ToJson ==
    \E order \in IterationOrders(StateV2(refresh_token, scoped_keys,
                                         last_handled_command, commands_data)) :
        /\ last' = [Call("to_json") EXCEPT !.json = Some(to_json(order))]
        /\ UNCHANGED <<refresh_token, scoped_keys, access_token_cache, flow_store,
                       persist_callback, now, command_vars>>

\* A mutant: the state is read into the instance at hand, which keeps its
\* flows, its caches and its callback.
FromJsonKeepingFlows ==
    /\ last.op = "to_json"
    /\ LET data == Unwrap(last.json)
           parsed == state_from_json(data)
           call == [Call("from_json") EXCEPT
                      !.json = last.json,
                      !.args = <<DOMAIN flow_store, DOMAIN access_token_cache,
                                 persist_callback, profile_cache>>]
       IN IF ~IsSome(parsed) THEN
              /\ last' = [call EXCEPT !.result = "JsonError"]
              /\ UNCHANGED <<refresh_token, scoped_keys, access_token_cache,
                             flow_store, persist_callback, last_handled_command,
                             commands_data, profile_cache, highest_handled,
                             delivered>>
          ELSE
              /\ last' = call
              /\ refresh_token' = Unwrap(parsed).refresh_token
              /\ scoped_keys' = Unwrap(parsed).scoped_keys
              /\ access_token_cache' = access_token_cache
              /\ flow_store' = flow_store
              /\ persist_callback' = persist_callback
              /\ last_handled_command' = Unwrap(parsed).last_handled_command
              /\ commands_data' = Unwrap(parsed).commands_data
              /\ profile_cache' = profile_cache
              /\ highest_handled' =
                     IF IsSome(Unwrap(parsed).last_handled_command)
                     THEN Unwrap(Unwrap(parsed).last_handled_command) ELSE 0
              /\ delivered' = [i \in 1..MaxIndex |-> 0]
    /\ config' = IF IsSome(state_from_json(Unwrap(last.json)))
                 THEN Unwrap(last.json).config ELSE config
    /\ UNCHANGED <<now, component>>

\* FirefoxAccount::from_json on the text the last to_json returned: the
\* instance is replaced by the one from_state builds. The record of the call
\* notes what the instance that wrote the text held beside its state: its
\* pending flows, its cached scopes, its callback and its cached profile.
FromJson ==
    /\ last.op = "to_json"
    /\ LET data == Unwrap(last.json)
           parsed == state_from_json(data)
           call == [Call("from_json") EXCEPT
                      !.json = last.json,
                      !.args = <<DOMAIN flow_store, DOMAIN access_token_cache,
                                 persist_callback, profile_cache>>]
       IN IF ~IsSome(parsed) THEN
              /\ last' = [call EXCEPT !.result = "JsonError"]
              /\ UNCHANGED <<refresh_token, scoped_keys, access_token_cache,
                             flow_store, persist_callback, last_handled_command,
                             commands_data, profile_cache, highest_handled,
                             delivered>>
          ELSE
              /\ last' = call
              /\ refresh_token' = Unwrap(parsed).refresh_token
              /\ scoped_keys' = Unwrap(parsed).scoped_keys
              /\ access_token_cache' = EmptyMap
              /\ flow_store' = EmptyMap
              /\ persist_callback' = FALSE
              /\ last_handled_command' = Unwrap(parsed).last_handled_command
              /\ commands_data' = Unwrap(parsed).commands_data
              /\ profile_cache' = None
              /\ highest_handled' =
                     IF IsSome(Unwrap(parsed).last_handled_command)
                     THEN Unwrap(Unwrap(parsed).last_handled_command) ELSE 0
              /\ delivered' = [i \in 1..MaxIndex |-> 0]
    /\ config' = IF IsSome(state_from_json(Unwrap(last.json)))
                 THEN Unwrap(last.json).config ELSE config
    /\ UNCHANGED <<now, component>>

----------------------------------------------------------------------------
(* The specifications *)

\* The persisted states state_from_json reads back.
PersistedStates ==
    {PersistedState(rt, keys) :
        rt \in {None,
                Some([token |-> "r1", scopes |-> {PROFILE}]),
                Some([token |-> "r1", scopes |-> {PROFILE, OLD_SYNC}])},
        keys \in {EmptyMap,
                  Insert(EmptyMap, PROFILE, ScopedKey(PROFILE, "k1"))}}

\* FirefoxAccount::from_state
from_state(state) ==
    /\ refresh_token = state.refresh_token
    /\ scoped_keys = state.scoped_keys
    /\ access_token_cache = EmptyMap
    /\ flow_store = EmptyMap
    /\ persist_callback = FALSE
    /\ last_handled_command = state.last_handled_command
    /\ commands_data = state.commands_data
    /\ profile_cache = None
    /\ highest_handled = IF IsSome(state.last_handled_command)
                         THEN Unwrap(state.last_handled_command) ELSE 0
    /\ delivered = [i \in 1..MaxIndex |-> 0]
    /\ config = Config

\* FirefoxAccount::new
Init ==
    /\ from_state(PersistedState(None, EmptyMap))
    /\ now = 0
    /\ last = Call("new")
    /\ component = "flows"

\* FirefoxAccount::from_json
InitFromJson ==
    /\ \E state \in PersistedStates : from_state(state)
    /\ now = 0
    /\ last = Call("from_json")
    /\ component = "token"

\* The token broker alone: get_access_token against the clock, on an instance
\* restored from any persisted state.
TokenNext ==
    \/ GetAccessToken
    \/ Tick

TokenSpec == InitFromJson /\ [][TokenNext]_vars

\* The OAuth flows alone: begin, complete, and the persist callback.
FlowNext ==
    \/ BeginOAuthFlow
    \/ BeginPairingFlow
    \/ CompleteOAuthFlow
    \/ register_persist_callback
    \/ unregister_persist_callback

FlowSpec == Init /\ [][FlowNext]_vars

\* FirefoxAccount::new, for flows that run side by side.
InitPkce ==
    /\ from_state(PersistedState(None, EmptyMap))
    /\ now = 0
    /\ last = Call("new")
    /\ component = "pkce"

\* Begin and complete calls interleaved, each flow with its own verifier.
PkceNext ==
    \/ BeginOAuthFlow
    \/ BeginPairingFlow
    \/ CompleteOAuthFlow

PkceSpec == InitPkce /\ [][PkceNext]_vars

\* FirefoxAccount::from_json, on an account that holds a refresh token and a
\* scoped key for the profile scope.
InitKeyed ==
    /\ from_state(PersistedState(
           Some([token |-> "r0", scopes |-> {PROFILE}]),
           Insert(EmptyMap, PROFILE, ScopedKey(PROFILE, "k0"))))
    /\ now = 0
    /\ last = Call("from_json")
    /\ component = "flows"

\* Flows begun and completed on an account that already holds a key.
KeyedSpec == InitKeyed /\ [][PkceNext]_vars

\* FirefoxAccount::from_json, on an account that holds a refresh token for
\* both scopes and the old-sync key.
InitCached ==
    /\ from_state(PersistedState(
           Some([token |-> "r0", scopes |-> {PROFILE, OLD_SYNC}]),
           Insert(EmptyMap, OLD_SYNC, ScopedKey(OLD_SYNC, "k0"))))
    /\ now = 0
    /\ last = Call("from_json")
    /\ component = "cache"

\* The token broker next to the flows: tokens are minted and read back while
\* flows replace the refresh token and the scoped keys.
\* get_access_token for either scope.
MintOrRead ==
    \E scope \in {PROFILE, OLD_SYNC} :
        \E resp \in Draws(SendsRefreshRequest(scope), RefreshResponses(scope)),
           d \in Draws(SendsRefreshRequest(scope), Latencies) :
            get_access_token(scope, resp, d) /\ UNCHANGED command_vars

\* begin_oauth_flow for the profile scope, with keys.
Reauthorize ==
    \E all_scopes \in AllScopes(refresh_token, <<PROFILE>>) :
        /\ begin_oauth_flow(<<PROFILE>>, TRUE, all_scopes, "st1", "v1", "kp1", TRUE)
        /\ UNCHANGED command_vars

\* complete_oauth_flow of that flow, the server granting the profile scope
\* alone, with a new old-sync key when it sends keys.
Reconnect ==
    \E resp \in Draws("st1" \in DOMAIN flow_store,
                      {r \in CodeResponses :
                          r.ok => /\ r.scope = PROFILE
                                  /\ r.refresh_token \in {None, Some("r1")}
                                  /\ IsSome(r.keys_jwe)
                                  /\ Unwrap(r.keys_jwe).decrypts
                                  /\ Unwrap(r.keys_jwe).is_object}) :
        /\ complete_oauth_flow("code1", "st1", resp)
        /\ UNCHANGED command_vars

CachedNext ==
    \/ MintOrRead
    \/ Reauthorize
    \/ Reconnect

CachedSpec == InitCached /\ [][CachedNext]_vars

\* FirefoxAccount::from_json, on the same account, to be written and read
\* back.
InitRestored ==
    /\ from_state(PersistedState(
           Some([token |-> "r0", scopes |-> {PROFILE, OLD_SYNC}]),
           Insert(EmptyMap, OLD_SYNC, ScopedKey(OLD_SYNC, "k0"))))
    /\ now = 0
    /\ last = Call("from_json")
    /\ component = "restore"

\* An account that is used, written with to_json and read back with
\* from_json.
RestoredNext ==
    \/ GetProfile
    \/ Reauthorize
    \/ Reconnect
    \/ register_persist_callback
    \/ ToJson
    \/ FromJson

RestoredSpec == InitRestored /\ [][RestoredNext]_vars

\* The persisted states of a signed-out or signed-in account with or without
\* send-tab keys (kept whole or damaged) and a handled command index.
PollStates ==
    {StateV2(rt, EmptyMap, index, data) :
        rt \in {None, Some([token |-> "r1", scopes |-> {PROFILE, OLD_SYNC}])},
        index \in {None, Some(2)},
        data \in {EmptyMap} \cup
                 {Insert(EmptyMap, COMMAND_NAME, blob) :
                     blob \in {KeysToString(k) : k \in SendTabKeys} \cup {<<"junk">>}}}

\* FirefoxAccount::from_json
InitPoll ==
    /\ \E state \in PollStates : from_state(state)
    /\ now = 0
    /\ last = Call("from_json")
    /\ component = "poll"

\* The command channel alone: polls, pushes and the persist callback, against
\* a server that answers anything.
PollNext ==
    \/ PollRemoteCommands
    \/ HandlePushMessage
    \/ register_persist_callback
    \/ unregister_persist_callback

PollSpec == InitPoll /\ [][PollNext]_vars

\* The command channel against a server that returns only messages at or
\* above the requested index and reports the highest index it returned.
HonestNext ==
    \/ HonestPollRemoteCommands
    \/ HonestHandlePushMessage

HonestSpec == InitPoll /\ [][HonestNext]_vars

\* The old-sync keys a persisted state may hold: the one a flow stores, and
\* others whose kid has two '-', has none, or has a part after the '-' that
\* is not base64url, and one whose k is not.
OldSyncKeys ==
    {ScopedKey(OLD_SYNC, "k2"),
     [ScopedKey(OLD_SYNC, "k2") EXCEPT !.kid = "1-k-2"],
     [ScopedKey(OLD_SYNC, "k2") EXCEPT !.kid = "1k2"],
     [ScopedKey(OLD_SYNC, "k2") EXCEPT !.kid = "1-k+2"],
     [ScopedKey(OLD_SYNC, "k2") EXCEPT !.k = "k=", !.kid = "1k2"]}

\* The persisted states of a signed-out or signed-in account with or without
\* the old-sync key and send-tab keys.
DeviceStates ==
    {StateV2(rt, keys, None, data) :
        rt \in {None, Some([token |-> "r1", scopes |-> {PROFILE, OLD_SYNC}])},
        keys \in {EmptyMap} \cup
                 {Insert(EmptyMap, OLD_SYNC, key) : key \in OldSyncKeys},
        data \in {EmptyMap,
                  Insert(EmptyMap, COMMAND_NAME, KeysToString("kA")),
                  Insert(EmptyMap, COMMAND_NAME, <<"junk">>)}}

\* FirefoxAccount::from_json
InitDevices ==
    /\ \E state \in DeviceStates : from_state(state)
    /\ now = 0
    /\ last = Call("from_json")
    /\ component = "devices"

\* The device record alone: updates, commands, send-tab and the persist
\* callback.
DeviceNext ==
    \/ GetDevices
    \/ InvokeCommand
    \/ SetPushSubscription
    \/ SetDisplayName
    \/ ClearDisplayName
    \/ RegisterCommand
    \/ UnregisterCommand
    \/ ClearCommands
    \/ SendTab
    \/ EnsureSendTabRegistered
    \/ register_persist_callback
    \/ unregister_persist_callback

DeviceSpec == InitDevices /\ [][DeviceNext]_vars

\* The persisted states of accounts with up to two scopes, scoped keys and
\* commands.
CodecStates ==
    {StateV2(rt, keys, index, data) :
        rt \in {None,
                Some([token |-> "r1", scopes |-> {PROFILE}]),
                Some([token |-> "r1", scopes |-> {PROFILE, OLD_SYNC}])},
        keys \in {EmptyMap,
                  Insert(EmptyMap, OLD_SYNC, ScopedKey(OLD_SYNC, "k2")),
                  Insert(Insert(EmptyMap, OLD_SYNC, ScopedKey(OLD_SYNC, "k2")),
                         PROFILE, ScopedKey(PROFILE, "k1"))},
        index \in {None, Some(MaxIndex)},
        data \in {EmptyMap,
                  Insert(EmptyMap, COMMAND_NAME, KeysToString("kA")),
                  Insert(Insert(EmptyMap, COMMAND_NAME, KeysToString("kA")),
                         "open-uri", <<"blob">>)}}

\* FirefoxAccount::from_json
InitCodec ==
    /\ \E state \in CodecStates : from_state(state)
    /\ now = 0
    /\ last = Call("from_json")
    /\ component = "codec"

\* The persistence codec alone: an instance is written with to_json and
\* read back with from_json, again and again.
CodecNext ==
    \/ ToJson
    \/ FromJson
    \/ register_persist_callback

CodecSpec == InitCodec /\ [][CodecNext]_vars

\* FirefoxAccount::from_json
InitProfile ==
    /\ \E state \in PersistedStates : from_state(state)
    /\ now = 0
    /\ last = Call("from_json")
    /\ component = "profile"

\* The profile alone, against a clock that also runs past the freshness
\* threshold.
ProfileNext ==
    \/ GetProfile
    \/ Tick
    \/ Sleep

ProfileSpec == InitProfile /\ [][ProfileNext]_vars

\* Every operation of the account. In one run the embedder drives one part
\* of the API (component): the token broker, the profile, the OAuth flows,
\* the command channel, the device record or the persistence codec, each
\* with the persist callback. The server of the command channel is the honest one.
InitAccount ==
    Init \/ InitFromJson \/ InitProfile \/ InitPoll \/ InitDevices \/ InitCodec

Next ==
    \/ component = "token" /\ GetAccessToken
    \/ component = "token" /\ Tick
    \/ component = "profile" /\ GetProfile
    \/ component = "profile" /\ Tick
    \/ component = "flows" /\ BeginOAuthFlow
    \/ component = "flows" /\ BeginPairingFlow
    \/ component = "flows" /\ CompleteOAuthFlow
    \/ component = "poll" /\ HonestPollRemoteCommands
    \/ component = "poll" /\ HonestHandlePushMessage
    \/ component = "devices" /\ GetDevices
    \/ component = "devices" /\ InvokeCommand
    \/ component = "devices" /\ SetPushSubscription
    \/ component = "devices" /\ SetDisplayName
    \/ component = "devices" /\ ClearDisplayName
    \/ component = "devices" /\ RegisterCommand
    \/ component = "devices" /\ UnregisterCommand
    \/ component = "devices" /\ ClearCommands
    \/ component = "devices" /\ SendTab
    \/ component = "devices" /\ EnsureSendTabRegistered
    \/ component = "codec" /\ ToJson
    \/ component = "codec" /\ FromJson
    \/ register_persist_callback
    \/ unregister_persist_callback

Spec == InitAccount /\ [][Next]_vars

----------------------------------------------------------------------------
(* Vocabulary of the properties: what a call record and a string say,       *)
(* stated apart from the operators the operations above are built from.     *)

\* The maximal space-free pieces of s, empty pieces included.
Pieces(s) ==
    {SubSeq(s, ij[1], ij[2]) :
        ij \in {x \in (1..(Len(s) + 1)) \X (0..Len(s)) :
                   /\ x[1] <= x[2] + 1
                   /\ x[1] = 1 \/ s[x[1] - 1] = SP
                   /\ x[2] = Len(s) \/ s[x[2] + 1] = SP
                   /\ \A k \in x[1]..x[2] : s[k] # SP}}

\* How many pieces s has, repetitions counted.
PieceCount(s) == Cardinality({i \in 1..Len(s) : s[i] = SP}) + 1

HasWhitespace(s) == \E i \in 1..Len(s) : s[i] \in {SP, TAB, NL}
HasSpace(s) == \E i \in 1..Len(s) : s[i] = SP

\* The value of the query parameter `name` of a URL.
Param(url, name) ==
    url.query[CHOOSE i \in 1..Len(url.query) : url.query[i].name = name].value

IsGetAccessToken(call) == call.op = "get_access_token"
IsComplete(call) == call.op = "complete_oauth_flow"

\* The requests of a call that destroy `token`.
Destroys(call, token) ==
    {i \in 1..Len(call.reqs) :
        call.reqs[i].kind = "destroy_oauth_token" /\ call.reqs[i].token = token}
AnyDestroy(call) ==
    \E i \in 1..Len(call.reqs) : call.reqs[i].kind = "destroy_oauth_token"

----------------------------------------------------------------------------
(* C1 *)

\* C1, as stated: in get_access_token(scope), a cached token for scope with
\* expires_at - now < 60 is not returned from the cache, and one with
\* expires_at - now >= 60 (exactly 60 included) is returned as stored, with no
\* request to the server.
C1_CacheFreshnessAsStated ==
    [][ (IsGetAccessToken(last') /\ last'.scope \in DOMAIN access_token_cache)
        => LET cached == access_token_cache[last'.scope] IN
           IF cached.expires_at - now < OAUTH_MIN_TIME_LEFT
           THEN ~last'.hit
           ELSE /\ last'.hit
                /\ last'.result = "Ok"
                /\ last'.token = Some(cached)
                /\ last'.reqs = <<>> ]_vars

----------------------------------------------------------------------------
(* C2 *)

\* C2: complete_oauth_flow(code, state) takes the entry for state out of the
\* flow store, and only that entry, whatever the outcome of the call: after
\* the call the store has no entry for state, and a call with the same state
\* that directly follows fails with UnknownOAuthState.
C2_FlowConsumed ==
    [][ IsComplete(last')
        => /\ last'.state \notin DOMAIN flow_store'
           /\ flow_store' = [st \in (DOMAIN flow_store) \ {last'.state} |-> flow_store[st]]
           /\ (IsComplete(last) /\ last.state = last'.state)
                  => last'.result = "UnknownOAuthState" ]_vars

\* A flow was consumed by a call whose exchange failed, while another flow
\* is still pending.
C2_Witness ==
    /\ IsComplete(last)
    /\ last.result = "RequestError"
    /\ last.state \in FlowStates
    /\ last.state \notin DOMAIN flow_store
    /\ DOMAIN flow_store # {}

----------------------------------------------------------------------------
(* C3 *)

\* C3: complete_oauth_flow with a state that is not in the flow store returns
\* UnknownOAuthState, sends no request, does not invoke the persist callback
\* and leaves refresh token, scoped keys, flow store and access-token cache
\* unchanged.
C3_UnknownState ==
    [][ (IsComplete(last') /\ last'.state \notin DOMAIN flow_store)
        => /\ last'.result = "UnknownOAuthState"
           /\ last'.reqs = <<>>
           /\ last'.persisted = <<>>
           /\ UNCHANGED <<refresh_token, scoped_keys, flow_store,
                          access_token_cache>> ]_vars

\* An already consumed state was rejected on an instance that holds a refresh
\* token, a pending flow and a registered callback.
C3_Witness ==
    /\ IsComplete(last)
    /\ last.result = "UnknownOAuthState"
    /\ last.state \in FlowStates
    /\ persist_callback
    /\ IsSome(refresh_token)
    /\ DOMAIN flow_store # {}

----------------------------------------------------------------------------
(* C4 *)

\* C4: after a successful complete_oauth_flow the instance holds exactly the
\* refresh token of the response, with the set of space-separated scopes of
\* the response; a refresh token held before the call has had a destroy
\* request sent for it in that call, and no other refresh token has.
C4_RefreshTokenReplaced ==
    [][ (IsComplete(last') /\ last'.result = "Ok")
        => LET resp == Unwrap(last'.resp) IN
           /\ IsSome(resp.refresh_token)
           /\ refresh_token' = Some([token |-> Unwrap(resp.refresh_token),
                                     scopes |-> Pieces(resp.scope)])
           /\ IsSome(refresh_token)
                  => Destroys(last', Unwrap(refresh_token).token) # {}
           /\ \A t \in RefreshTokens :
                  Destroys(last', t) # {}
                      => IsSome(refresh_token) /\ Unwrap(refresh_token).token = t ]_vars

\* A refresh token with two scopes replaced another one, which was destroyed.
C4_Witness ==
    /\ IsComplete(last)
    /\ last.result = "Ok"
    /\ IsSome(refresh_token)
    /\ Cardinality(Unwrap(refresh_token).scopes) = 2
    /\ \E t \in RefreshTokens \ {Unwrap(refresh_token).token} : Destroys(last, t) # {}

----------------------------------------------------------------------------
(* C5 *)

\* C5: complete_oauth_flow fails with UnrecoverableServerError when the
\* response carries keys_jwe and the consumed flow holds no key pair, and with
\* TokenWithoutKeys when the flow holds a key pair and the response carries no
\* keys_jwe; in both cases refresh token and scoped keys are unchanged, no
\* destroy request is sent and the persist callback is not invoked.
C5_KeysMismatch ==
    [][ (IsComplete(last') /\ last'.state \in DOMAIN flow_store /\ IsSome(last'.resp))
        => LET resp == Unwrap(last'.resp)
               flow == flow_store[last'.state]
               mismatch == IsSome(resp.keys_jwe) # IsSome(flow.scoped_keys_flow)
           IN
           /\ (IsSome(resp.keys_jwe) /\ ~IsSome(flow.scoped_keys_flow))
                  => last'.result = "UnrecoverableServerError"
           /\ (~IsSome(resp.keys_jwe) /\ IsSome(flow.scoped_keys_flow))
                  => last'.result = "TokenWithoutKeys"
           /\ mismatch
                  => /\ UNCHANGED <<refresh_token, scoped_keys>>
                     /\ ~AnyDestroy(last')
                     /\ last'.persisted = <<>> ]_vars

\* Keys were asked for and did not come, on an instance that holds a refresh
\* token, scoped keys and a registered callback.
C5_Witness ==
    /\ IsComplete(last)
    /\ last.result = "TokenWithoutKeys"
    /\ IsSome(last.resp)
    /\ IsSome(Unwrap(last.resp).refresh_token)
    /\ persist_callback
    /\ IsSome(refresh_token)
    /\ DOMAIN scoped_keys # {}

----------------------------------------------------------------------------
(* C6 *)

\* The keys of the response are the ones the flow asked for and all of them
\* are read: the call gets past the handling of keys_jwe.
KeysAccepted(flow, resp) ==
    IF IsSome(resp.keys_jwe)
    THEN /\ IsSome(flow.scoped_keys_flow)
         /\ Unwrap(resp.keys_jwe).decrypts
         /\ Unwrap(resp.keys_jwe).is_object
         /\ \A i \in 1..Len(Unwrap(resp.keys_jwe).entries) :
                IsSome(Unwrap(resp.keys_jwe).entries[i].key)
    ELSE ~IsSome(flow.scoped_keys_flow)

\* C6: when the token response has no refresh_token (and its keys are
\* accepted), complete_oauth_flow returns RefreshTokenNotPresent; the requests
\* of the call are the exchange and then the destroy request for the returned
\* access token; the refresh token held before is kept, no destroy request is
\* sent for it, and the persist callback is not invoked.
C6_NoRefreshToken ==
    [][ (/\ IsComplete(last')
         /\ last'.state \in DOMAIN flow_store
         /\ IsSome(last'.resp)
         /\ ~IsSome(Unwrap(last'.resp).refresh_token))
        => LET resp == Unwrap(last'.resp) IN
           /\ KeysAccepted(flow_store[last'.state], resp)
                  => last'.result = "RefreshTokenNotPresent"
           /\ last'.result = "RefreshTokenNotPresent"
                  => /\ Len(last'.reqs) = 2
                     /\ last'.reqs[1].kind = "oauth_token_with_code"
                     /\ last'.reqs[2].kind = "destroy_oauth_token"
                     /\ last'.reqs[2].token = resp.access_token
           /\ UNCHANGED refresh_token
           /\ \A t \in RefreshTokens : Destroys(last', t) = {}
           /\ last'.persisted = <<>> ]_vars

\* The response had no refresh token while one was held and a callback was
\* registered.
C6_Witness ==
    /\ IsComplete(last)
    /\ last.result = "RefreshTokenNotPresent"
    /\ persist_callback
    /\ IsSome(refresh_token)
    /\ Len(last.reqs) = 2

----------------------------------------------------------------------------
(* C7 *)

\* The cache holds no entry for scope that get_access_token returns at time t.
NoFreshEntry(scope, t) ==
    \/ scope \notin DOMAIN access_token_cache
    \/ access_token_cache[scope].expires_at <= t + OAUTH_MIN_TIME_LEFT

\* C7: get_access_token(scope) for a single scope with no fresh cache entry.
\* If a refresh token is held and its scope set contains scope, one request
\* is sent that exchanges that refresh token for the single scope; when it is
\* answered, the result is stored in the cache under scope with
\* expires_at = now_secs + expires_in (the clock read when the answer is in)
\* and returned, and when it fails the cache is unchanged.  Otherwise the
\* call returns NoCachedToken, sends no request and leaves the cache unchanged.
C7_MintOrNoCachedToken ==
    [][ (/\ IsGetAccessToken(last')
         /\ ~HasSpace(last'.scope)
         /\ NoFreshEntry(last'.scope, now))
        => IF IsSome(refresh_token) /\ last'.scope \in Unwrap(refresh_token).scopes
           THEN /\ Len(last'.reqs) = 1
                /\ last'.reqs[1].kind = "oauth_token_with_refresh_token"
                /\ last'.reqs[1].token = Unwrap(refresh_token).token
                /\ last'.reqs[1].scopes = <<last'.scope>>
                /\ ~last'.hit
                /\ IF last'.reqs[1].ok
                   THEN /\ last'.result = "Ok"
                        /\ last'.scope \in DOMAIN access_token_cache'
                        /\ last'.token = Some(access_token_cache'[last'.scope])
                        /\ Unwrap(last'.token).token = Unwrap(last'.resp).access_token
                        /\ Unwrap(last'.token).expires_at
                               = now' + Unwrap(last'.resp).expires_in
                        /\ Unwrap(last'.token).key
                               = (IF last'.scope \in DOMAIN scoped_keys
                                  THEN <<scoped_keys[last'.scope]>> ELSE <<>>)
                        /\ \A sc \in (DOMAIN access_token_cache') \ {last'.scope} :
                               /\ sc \in DOMAIN access_token_cache
                               /\ access_token_cache'[sc] = access_token_cache[sc]
                   ELSE /\ last'.result # "Ok"
                        /\ last'.token = None
                        /\ UNCHANGED access_token_cache
           ELSE /\ last'.result = "NoCachedToken"
                /\ last'.reqs = <<>>
                /\ last'.token = None
                /\ UNCHANGED access_token_cache ]_vars

\* A token was minted after the clock had advanced, over a stale entry, and
\* carries the scoped key of its scope.
C7_Witness ==
    /\ IsGetAccessToken(last)
    /\ last.result = "Ok"
    /\ ~last.hit
    /\ Len(last.reqs) = 1
    /\ now > 0
    /\ IsSome(Unwrap(last.token).key)
    /\ Unwrap(last.token).expires_at = now + Unwrap(last.resp).expires_in

----------------------------------------------------------------------------
(* C8 *)

\* C8, as stated: get_access_token rejects every scope that contains a
\* whitespace character (space, tab or newline) with MultipleScopesRequested,
\* before the cache is consulted or a request is sent.
C8_WhitespaceAsStated ==
    (IsGetAccessToken(last) /\ HasWhitespace(last.scope))
        => /\ last.result = "MultipleScopesRequested"
           /\ ~last.hit
           /\ last.reqs = <<>>

\* C8, amended: get_access_token rejects every scope that contains a space
\* character with MultipleScopesRequested, before the cache is consulted or a
\* request is sent; it rejects no other scope with that error, a scope whose
\* only whitespace is a tab or a newline included.
C8_SpaceRejected ==
    IsGetAccessToken(last)
        => /\ HasSpace(last.scope)
               => /\ last.result = "MultipleScopesRequested"
                  /\ ~last.hit
                  /\ last.reqs = <<>>
                  /\ last.token = None
           /\ ~HasSpace(last.scope) => last.result # "MultipleScopesRequested"

\* A scope with a space was rejected while a refresh token was held and the
\* cache was not empty.
C8_Witness ==
    /\ IsGetAccessToken(last)
    /\ HasSpace(last.scope)
    /\ last.result = "MultipleScopesRequested"
    /\ IsSome(refresh_token)
    /\ DOMAIN access_token_cache # {}

----------------------------------------------------------------------------
(* C9 *)

\* C9: when a refresh token with scope set R is held, begin_oauth_flow(S, _)
\* emits a scope parameter whose space-separated pieces are exactly the
\* elements of R \cup S, each once.
C9_ScopeUnion ==
    (last.op = "begin_oauth_flow" /\ last.result = "Ok" /\ IsSome(refresh_token))
        => LET scope == Param(Unwrap(last.url), "scope")
               union == Unwrap(refresh_token).scopes \cup Range(last.scopes)
           IN /\ Pieces(scope) = union
              /\ PieceCount(scope) = Cardinality(union)

\* The requested list repeats a scope and overlaps the held scopes.
C9_Witness ==
    /\ last.op = "begin_oauth_flow"
    /\ last.result = "Ok"
    /\ IsSome(refresh_token)
    /\ Len(last.scopes) > Cardinality(Range(last.scopes))
    /\ Range(last.scopes) \cap Unwrap(refresh_token).scopes # {}
    /\ PieceCount(Param(Unwrap(last.url), "scope")) = 2

----------------------------------------------------------------------------
(* C10 *)

\* C10: begin_pairing_flow with a pairing URL whose host differs from the
\* content server's fails with OriginMismatch, returns no URL and leaves the
\* flow store unchanged.
C10_OriginMismatch ==
    [][ (/\ last'.op = "begin_pairing_flow"
         /\ Unwrap(last'.pairing_url).wellformed
         /\ ToLower(Unwrap(last'.pairing_url).host) # Config.content_host)
        => /\ last'.result = "OriginMismatch"
           /\ last'.url = None
           /\ last'.state = ""
           /\ UNCHANGED flow_store ]_vars

\* A pairing URL of another host was refused while a flow was pending.
C10_Witness ==
    /\ last.op = "begin_pairing_flow"
    /\ last.result = "OriginMismatch"
    /\ Unwrap(last.pairing_url).host = "bad.origin.com"
    /\ DOMAIN flow_store # {}

----------------------------------------------------------------------------
(* Vocabulary of the command channel *)

IsPoll(call) == call.op \in {"poll_remote_commands", "handle_push_message"}

\* The number an optional index stands for.
Base(index) == IF IsSome(index) THEN Unwrap(index) ELSE 0

\* The call sent a pending-commands request / the index it asked for.
AsksPending(call) == Len(call.reqs) >= 1 /\ call.reqs[1].kind = "pending_commands"
Asked(call) == call.reqs[1].body

\* The call got past get_devices with at least one message to handle.
Handles(call) ==
    /\ IsSome(call.resp)
    /\ Len(Unwrap(call.resp).messages) >= 1
    /\ Len(call.reqs) = 2 /\ call.reqs[2].ok

\* A message the claims expect an event for: a send-tab command whose payload
\* decrypts with the keys stored under "send-tab".
Decrypts(message, data) ==
    /\ message.data.command = "send-tab"
    /\ "send-tab" \in DOMAIN data
    /\ message.data.payload.encrypted
    /\ data["send-tab"] = <<"keys", message.data.payload.key>>

----------------------------------------------------------------------------
(* C11 *)

\* C11, as stated: after any poll_remote_commands call returns, made directly
\* or through handle_push_message, last_handled_command is greater than or
\* equal to its previous value, for every response the server may send.
C11_IndexMonotonicAsStated ==
    [][ IsPoll(last') => Base(last_handled_command') >= Base(last_handled_command) ]_vars

----------------------------------------------------------------------------
(* C12 *)

\* C12: a successful poll whose response carries at least one message sets
\* last_handled_command to the index field of the response and then hands
\* the state with that index to the persist callback, if one is registered;
\* a response without messages returns no events, leaves
\* last_handled_command as it was and invokes no callback, whatever index it
\* reports.
C12_TakesResponseIndex ==
    [][ IsPoll(last') /\ last'.result = "Ok"
        => LET resp == Unwrap(last'.resp) IN
           IF Len(resp.messages) >= 1
           THEN /\ last_handled_command' = Some(resp.index)
                /\ last'.persisted =
                       IF persist_callback
                       THEN << [refresh_token |-> refresh_token,
                                scoped_keys |-> scoped_keys,
                                last_handled_command |-> Some(resp.index),
                                commands_data |-> commands_data] >>
                       ELSE <<>>
           ELSE /\ last'.events = <<>>
                /\ last_handled_command' = last_handled_command
                /\ last'.persisted = <<>> ]_vars

\* A successful poll with messages and a registered callback, whose response
\* index is not the requested base plus the number of messages.
C12_Witness ==
    /\ IsPoll(last) /\ last.result = "Ok"
    /\ Len(Unwrap(last.resp).messages) >= 1
    /\ last.persisted # <<>>
    /\ last_handled_command = Some(Unwrap(last.resp).index)
    /\ Unwrap(last.resp).index # Asked(last) - 1 + Len(Unwrap(last.resp).messages)

----------------------------------------------------------------------------
(* C13 *)

\* C13, as stated: every pending-commands request asks for index
\* last_handled_command + 1 (1 when there is none), and across any sequence
\* of polls no request asks for an index less than or equal to a value
\* last_handled_command has held earlier.
C13_NeverAsksHandledAsStated ==
    [][ IsPoll(last') /\ AsksPending(last')
        => /\ Asked(last') = Base(last_handled_command) + 1
           /\ Asked(last') > highest_handled ]_vars

----------------------------------------------------------------------------
(* C15 *)

\* C15: in a poll that gets to handle its messages, a message yields exactly
\* one TabReceived event when its command is send-tab, local keys are stored
\* and its payload decrypts with them; every other message is skipped and
\* the call still succeeds, returns the events of the remaining messages in
\* server order and sets last_handled_command from the response.
C15_SkipsBadMessages ==
    [][ IsPoll(last') /\ Handles(last')
        => LET resp == Unwrap(last'.resp)
               good == SelectSeq(resp.messages,
                                 LAMBDA m : Decrypts(m, commands_data))
           IN /\ last'.result = "Ok"
              /\ Len(last'.events) = Len(good)
              /\ \A i \in 1..Len(good) :
                     /\ last'.events[i].event = "TabReceived"
                     /\ last'.events[i].tab = good[i].data.payload.tab
              /\ last_handled_command' = Some(resp.index) ]_vars

\* A poll over four messages of which the second and the third are skipped.
C15_Witness ==
    /\ IsPoll(last) /\ Handles(last) /\ last.result = "Ok"
    /\ Len(Unwrap(last.resp).messages) = 4
    /\ Len(last.events) = 2
    /\ last.events[1].tab = "tab1" /\ last.events[2].tab = "tab4"

----------------------------------------------------------------------------
(* C14 *)

\* C14: with a server that returns only messages at or above the requested
\* index and reports as index the highest index it returned, every command
\* message gives rise to at most one TabReceived event over any sequence of
\* poll_remote_commands and handle_push_message calls, failing polls
\* included.
C14_AtMostOnce == \A i \in 1..MaxIndex : delivered[i] <= 1

\* Two commands delivered by two different polls, the later one alone in the
\* events of the last call.
C14_Witness ==
    /\ IsPoll(last) /\ last.result = "Ok"
    /\ Len(last.events) = 1 /\ last.events[1].tab = "tab4"
    /\ delivered[1] = 1 /\ delivered[4] = 1

----------------------------------------------------------------------------
(* Vocabulary of the persist callback *)

\* The persisted fields, as one record.
Persistent ==
    [refresh_token |-> refresh_token, scoped_keys |-> scoped_keys,
     last_handled_command |-> last_handled_command,
     commands_data |-> commands_data]

IsEnsure(call) == call.op = "ensure_send_tab_registered"
Invoked(call) == call.persisted # <<>>

----------------------------------------------------------------------------
(* C16 *)

\* C16, as stated: whenever an operation changes a persisted field (refresh
\* token, scoped keys, last handled command index, commands data) while a
\* callback is registered, the callback is invoked with the serialization of
\* the changed state before the operation returns.
C16_PersistsEveryChangeAsStated ==
    [][ persist_callback /\ Persistent' # Persistent
        => /\ Invoked(last')
           /\ last'.persisted[Len(last'.persisted)] = Persistent' ]_vars

----------------------------------------------------------------------------
(* C17 *)

\* ensure_send_tab_registered found no send-tab keys and stored new ones.
GeneratesKeys ==
    /\ "send-tab" \notin DOMAIN commands_data
    /\ "send-tab" \in DOMAIN commands_data'

\* C17: the persist callback is invoked only by complete_oauth_flow when it
\* succeeds, by poll_remote_commands (also through handle_push_message) when
\* it succeeds, and by ensure_send_tab_registered when it generates fresh
\* keys; no other operation invokes it.
C17_InvokedOnlyAtDefinedPoints ==
    [][ Invoked(last')
        => \/ IsComplete(last') /\ last'.result = "Ok"
           \/ IsPoll(last') /\ last'.result = "Ok"
           \/ IsEnsure(last') /\ GeneratesKeys ]_vars

\* The callback invoked by an ensure_send_tab_registered that succeeded.
C17_Witness ==
    /\ IsEnsure(last) /\ last.result = "Ok"
    /\ Invoked(last)
    /\ last.persisted[1].commands_data = commands_data

----------------------------------------------------------------------------
(* C18 *)

\* C18, as stated: a call that returns an error has not invoked the persist
\* callback.
C18_NoCallbackOnErrorAsStated == last.result # "Ok" => ~Invoked(last)

\* C18, amended: complete_oauth_flow and poll_remote_commands return every
\* error before any callback invocation of the call;
\* ensure_send_tab_registered invokes the callback as soon as it has
\* generated and stored fresh keys, so it has invoked it when it then fails
\* in deriving the key-encrypting key (no key, a key that does not decode, a
\* kid without '-') or in the device update, and has not when it fails
\* before (unreadable stored keys, failed generator).
C18_ErrorsBeforeCallback ==
    [][ /\ (IsComplete(last') \/ IsPoll(last')) /\ last'.result # "Ok"
           => ~Invoked(last')
        /\ IsEnsure(last') /\ persist_callback
           => (Invoked(last') <=> GeneratesKeys)
        /\ IsEnsure(last') /\ Invoked(last') /\ last'.result # "Ok"
           => last'.result \in {"NoCachedKey", "Base64Error", "Panic",
                                "NoRefreshToken", "RequestError"}
        /\ IsEnsure(last') /\ last'.result \in {"JsonError", "RngError"}
           => ~Invoked(last') /\ commands_data' = commands_data ]_vars

\* An ensure_send_tab_registered that invoked the callback and returned an
\* error.
C18_Witness ==
    /\ IsEnsure(last) /\ last.result # "Ok"
    /\ Invoked(last)

----------------------------------------------------------------------------
(* C19 *)

\* Two documents that differ at most in the order in which the scopes and
\* the members of the maps are written.
SameDocument(a, b) ==
    /\ a.schema_version = b.schema_version
    /\ a.config = b.config
    /\ IsSome(a.refresh_token) = IsSome(b.refresh_token)
    /\ IsSome(a.refresh_token)
       => /\ a.refresh_token[1].token = b.refresh_token[1].token
          /\ {a.refresh_token[1].scopes[i] : i \in 1..Len(a.refresh_token[1].scopes)}
             = {b.refresh_token[1].scopes[i] : i \in 1..Len(b.refresh_token[1].scopes)}
          /\ Len(a.refresh_token[1].scopes) = Len(b.refresh_token[1].scopes)
    /\ {a.scoped_keys[i] : i \in 1..Len(a.scoped_keys)}
       = {b.scoped_keys[i] : i \in 1..Len(b.scoped_keys)}
    /\ Len(a.scoped_keys) = Len(b.scoped_keys)
    /\ a.last_handled_command = b.last_handled_command
    /\ {a.commands_data[i] : i \in 1..Len(a.commands_data)}
       = {b.commands_data[i] : i \in 1..Len(b.commands_data)}
    /\ Len(a.commands_data) = Len(b.commands_data)

----------------------------------------------------------------------------
(* C20 *)

\* The send-tab bundle a call advertised on the device record.
Advertised(call) == call.reqs[1].body.available_commands[1][1]["send-tab"]
Advertises(call) == Len(call.reqs) = 1 /\ call.reqs[1].kind = "update_device"

\* C20: ensure_send_tab_registered generates a new keypair, stores it under
\* commands_data["send-tab"] and invokes the persist callback only when no
\* such entry exists; when an entry exists the call leaves commands_data
\* unchanged and invokes no callback; in both cases the bundle it advertises
\* is derived from the keypair stored when it returns, so calls that follow
\* the first advertise the same keypair.
C20_KeysGeneratedOnce ==
    [][ IsEnsure(last')
        => /\ IF "send-tab" \in DOMAIN commands_data
              THEN /\ commands_data' = commands_data
                   /\ ~Invoked(last')
              ELSE \/ /\ last'.result = "RngError"
                      /\ commands_data' = commands_data
                      /\ ~Invoked(last')
                   \/ /\ \E k \in {"kA", "kB"} :
                             commands_data' =
                                 [n \in DOMAIN commands_data \cup {"send-tab"} |->
                                     IF n = "send-tab" THEN <<"keys", k>>
                                     ELSE commands_data[n]]
                      /\ Invoked(last') <=> persist_callback
                      /\ Invoked(last') => last'.persisted[1] = Persistent'
           /\ Advertises(last')
              => /\ "send-tab" \in DOMAIN commands_data'
                 /\ Advertised(last')[2] = <<"public", commands_data'["send-tab"][2]>> ]_vars

\* A call that found the keys an earlier call had generated: the callback is
\* registered and was not invoked, and the bundle of the stored keys is
\* advertised.
C20_Witness ==
    /\ IsEnsure(last) /\ last.result = "Ok"
    /\ persist_callback /\ ~Invoked(last)
    /\ commands_data["send-tab"] = <<"keys", "kB">>
    /\ Advertises(last)


----------------------------------------------------------------------------
(* C21 *)

\* The available commands an update request of the call carries.
CommandsSent(call) == call.reqs[1].body.available_commands

\* C21: when register_command(name, value) sends its device update, the
\* update's available commands are exactly the map {name: value}, whatever
\* command data the account holds from earlier registrations, and the update
\* touches no other field of the device; when unregister_command(x) sends
\* its update, the available commands are the empty map for every x, a name
\* never registered included.  (A signed-out account sends nothing.)
C21_RegisterReplaces ==
    /\ (last.op = "register_command" /\ last.result # "NoRefreshToken") =>
           /\ Advertises(last)
           /\ last.reqs[1].body =
                  DeviceUpdate(None, None,
                               Some(Some(Insert(EmptyMap, last.args[1],
                                                last.args[2]))))
           /\ DOMAIN CommandsSent(last)[1][1] = {last.args[1]}
    /\ (last.op = "unregister_command" /\ last.result # "NoRefreshToken") =>
           /\ Advertises(last)
           /\ last.reqs[1].body = DeviceUpdate(None, None, Some(Some(EmptyMap)))
    /\ (last.op \in {"register_command", "unregister_command"}
        /\ last.result = "NoRefreshToken") =>
           /\ ~IsSome(refresh_token)
           /\ last.reqs = <<>>

\* A register_command("open-uri", v) that succeeded on an account holding
\* send-tab command data from an earlier registration.
C21_Witness ==
    /\ last.op = "register_command"
    /\ last.result = "Ok"
    /\ last.args[1] = "open-uri"
    /\ COMMAND_NAME \in DOMAIN commands_data
    /\ DOMAIN CommandsSent(last)[1][1] = {"open-uri"}

----------------------------------------------------------------------------
(* C22 *)

IsBegin(call) == call.op \in {"begin_oauth_flow", "begin_pairing_flow"}

\* The flows pending under other states than `state` are left as they were.
OtherFlowsKept(state) ==
    \A s \in DOMAIN flow_store \ {state} :
        s \in DOMAIN flow_store' /\ flow_store'[s] = flow_store[s]

\* C22: a begin call that returns a URL stores under the URL's state a
\* verifier whose challenge, base64url(SHA-256(code_verifier)), is the
\* code_challenge of the URL; complete_oauth_flow(code, state) on a pending
\* state sends the code with the verifier stored under that state; and
\* neither call touches the flow pending under any other state, so the
\* verifier a flow's complete call sends is the one its URL was made from,
\* whichever flows were begun or completed in between.
C22_VerifierBound ==
    [][ /\ (IsBegin(last') /\ IsSome(last'.url)) =>
               /\ Param(Unwrap(last'.url), "state") = <<last'.state>>
               /\ last'.state \in DOMAIN flow_store'
               /\ Param(Unwrap(last'.url), "code_challenge") =
                      <<CodeChallenge(flow_store'[last'.state].code_verifier)>>
               /\ OtherFlowsKept(last'.state)
        /\ (IsBegin(last') /\ ~IsSome(last'.url)) => flow_store' = flow_store
        /\ (IsComplete(last') /\ last'.state \in DOMAIN flow_store) =>
               /\ Len(last'.reqs) >= 1
               /\ last'.reqs[1].kind = "oauth_token_with_code"
               /\ last'.reqs[1].code = last'.code
               /\ last'.reqs[1].code_verifier =
                      flow_store[last'.state].code_verifier
               /\ OtherFlowsKept(last'.state)
        /\ (IsComplete(last') /\ last'.state \notin DOMAIN flow_store) =>
               /\ last'.reqs = <<>>
               /\ flow_store' = flow_store ]_vars

\* A completed flow that sent its verifier while a flow with the other
\* verifier was pending under a different state.
C22_Witness ==
    /\ IsComplete(last)
    /\ last.result = "Ok"
    /\ last.state = "st1"
    /\ last.reqs[1].code_verifier = "v1"
    /\ "st2" \in DOMAIN flow_store
    /\ flow_store["st2"].code_verifier = "v2"

----------------------------------------------------------------------------
(* C23 *)

\* The names of the query parameters of a URL, in their order.
ParamNames(url) == [i \in 1..Len(url.query) |-> url.query[i].name]

\* C23: a begin_oauth_flow that returns a URL emits the query parameters
\* action=email, response_type=code, client_id, redirect_uri, scope, state,
\* code_challenge_method=S256, code_challenge, access_type=offline in this
\* order and nothing else, but keys_jwk as the tenth parameter exactly when
\* wants_keys is true; and it adds to the flow store the one entry of the
\* emitted state, with a key pair exactly when wants_keys is true.
C23_BeginParameters ==
    [][ (last'.op = "begin_oauth_flow" /\ last'.result = "Ok") =>
            LET url == Unwrap(last'.url)
                nine == << "action", "response_type", "client_id",
                           "redirect_uri", "scope", "state",
                           "code_challenge_method", "code_challenge",
                           "access_type" >>
            IN
            /\ IsSome(last'.url)
            /\ ParamNames(url) =
                   IF last'.wants_keys THEN nine \o <<"keys_jwk">> ELSE nine
            /\ Len(url.query) = IF last'.wants_keys THEN 10 ELSE 9
            /\ url.query[1].value = <<"email">>
            /\ url.query[2].value = <<"code">>
            /\ url.query[3].value = <<Config.client_id>>
            /\ url.query[4].value = <<Config.redirect_uri>>
            /\ Range(last'.scopes) \subseteq Range(Split(url.query[5].value))
            /\ url.query[6].value = <<last'.state>>
            /\ url.query[7].value = <<"S256">>
            /\ url.query[9].value = <<"offline">>
            /\ DOMAIN flow_store' = DOMAIN flow_store \cup {last'.state}
            /\ OtherFlowsKept(last'.state)
            /\ IsSome(flow_store'[last'.state].scoped_keys_flow) = last'.wants_keys
            /\ url.query[8].value =
                   <<CodeChallenge(flow_store'[last'.state].code_verifier)>>
            /\ last'.wants_keys =>
                   url.query[10].value =
                       <<KeysJwk(Unwrap(flow_store'[last'.state].scoped_keys_flow))>>
      ]_vars

\* A begin_oauth_flow without keys that returned nine parameters, after one
\* with keys had stored its flow under the other state.
C23_Witness ==
    /\ last.op = "begin_oauth_flow"
    /\ last.result = "Ok"
    /\ ~last.wants_keys
    /\ Len(Unwrap(last.url).query) = 9
    /\ DOMAIN flow_store = {"st1", "st2"}
    /\ \E s \in DOMAIN flow_store : IsSome(flow_store[s].scoped_keys_flow)

----------------------------------------------------------------------------
(* C24 *)

\* C24: a begin_pairing_flow that succeeds returns a URL on the content
\* server with path /pair/supp, the fragment of the pairing URL, and the
\* eight query parameters client_id, redirect_uri, scope, state,
\* code_challenge_method, code_challenge, access_type, keys_jwk; it stores a
\* key pair with the flow whatever it was asked; and completing a flow
\* stored with a key pair on a token response without keys_jwe fails with
\* TokenWithoutKeys, the account left as it was.
C24_PairingFlow ==
    [][ /\ (last'.op = "begin_pairing_flow" /\ last'.result = "Ok") =>
               LET url == Unwrap(last'.url)
                   pairing_url == Unwrap(last'.pairing_url)
                   flow == flow_store'[last'.state]
               IN
               /\ IsSome(last'.url)
               /\ url.host = Config.content_host
               /\ url.path = "/pair/supp"
               /\ url.fragment = pairing_url.fragment
               /\ ParamNames(url) =
                      << "client_id", "redirect_uri", "scope", "state",
                         "code_challenge_method", "code_challenge",
                         "access_type", "keys_jwk" >>
               /\ last'.wants_keys
               /\ last'.state \in DOMAIN flow_store'
               /\ IsSome(flow.scoped_keys_flow)
               /\ url.query[4].value = <<last'.state>>
               /\ url.query[8].value = <<KeysJwk(Unwrap(flow.scoped_keys_flow))>>
        /\ (/\ IsComplete(last')
            /\ last'.state \in DOMAIN flow_store
            /\ IsSome(last'.resp)
            /\ ~IsSome(Unwrap(last'.resp).keys_jwe)) =>
               IF IsSome(flow_store[last'.state].scoped_keys_flow)
               THEN /\ last'.result = "TokenWithoutKeys"
                    /\ refresh_token' = refresh_token
                    /\ scoped_keys' = scoped_keys
               ELSE last'.result # "TokenWithoutKeys" ]_vars

\* A pairing flow begun from a pairing URL with a fragment: the URL
\* carries the fragment and the flow has its key pair.
C24_Witness ==
    /\ last.op = "begin_pairing_flow"
    /\ last.result = "Ok"
    /\ Unwrap(last.url).fragment = Some("channel_id=c&channel_key=k")
    /\ Len(Unwrap(last.url).query) = 8
    /\ IsSome(flow_store[last.state].scoped_keys_flow)

----------------------------------------------------------------------------
(* push/crypto: Key, serialize and deserialize *)

\* The byte values used here.
Bytes == 0..2

\* The byte sequences of length lo .. hi.
ByteSeqs(lo, hi) == UNION {[1..n -> Bytes] : n \in lo..hi}

\* LocalKeyPairImpl::new(raw): the private key with these bytes as its
\* big-endian value, None when the value is not a private key (zero, no
\* bytes).  A private key is held as its to_raw() bytes, which have no
\* leading zero.
RECURSIVE LocalKeyPair(_)
LocalKeyPair(raw) ==
    IF Len(raw) = 0 THEN None
    ELSE IF raw[1] = 0 THEN LocalKeyPair(Tail(raw))
    ELSE Some(raw)

\* private.pub_as_raw(): the uncompressed point of the private key, a
\* function of the private key alone.
pub_as_raw(private) == <<4>> \o private

\* Key { private, public, auth }
Key(private, auth) ==
    [private |-> private, public |-> pub_as_raw(private), auth |-> auth]

\* The keys Crypto::generate_key may return: a random private key and
\* SER_AUTH_LENGTH random bytes.
GeneratedKeys ==
    {Key(private, auth) :
        private \in {raw \in ByteSeqs(1, 2) : raw[1] # 0},
        auth \in {[i \in 1..SER_AUTH_LENGTH |-> b] : b \in {0, 1}} \cup
                 {[i \in 1..SER_AUTH_LENGTH |-> i % 3]}}

\* `len as u8`
AsU8(n) == n % 256

\* A mutant: the private key is written before the auth secret.
serialize_private_first(key) ==
    <<1, AsU8(Len(key.private))>> \o key.private
        \o <<AsU8(Len(key.auth))>> \o key.auth

\* Key::serialize
serialize(key) ==
    <<1, AsU8(Len(key.auth))>> \o key.auth
        \o <<AsU8(Len(key.private))>> \o key.private

\* Key::deserialize: an index or a range past the end of raw panics.  The
\* positions are those of the code, counted from 0; raw[i] is raw[i + 1]
\* here.
deserialize(raw) ==
    LET failed(result) == [result |-> result, key |-> None]
        start == 2
        end == start + raw[1 + 1]
        start2 == end + 1
        end2 == start2 + raw[end + 1]
        private == LocalKeyPair(SubSeq(raw, start2 + 1, end2))
    IN
    IF Len(raw) < 1 THEN failed("Panic")
    ELSE IF raw[1] # 1 THEN failed("GeneralError")
    ELSE IF Len(raw) < 2 THEN failed("Panic")
    ELSE IF end > Len(raw) THEN failed("Panic")
    ELSE IF end >= Len(raw) THEN failed("Panic")
    ELSE IF end2 > Len(raw) THEN failed("Panic")
    ELSE IF ~IsSome(private) THEN failed("GeneralError")
    ELSE [result |-> "Ok",
          key |-> Some(Key(Unwrap(private), SubSeq(raw, start + 1, end)))]

\* Crypto::generate_key
GenerateKey ==
    /\ \E key \in GeneratedKeys :
           last' = [Call("generate_key") EXCEPT !.key = Some(key)]
    /\ UNCHANGED <<refresh_token, scoped_keys, access_token_cache, flow_store,
                   persist_callback, now, command_vars>>

\* key.serialize() on the key the last call returned.
Serialize ==
    /\ IsSome(last.key)
    /\ last' = [Call("serialize") EXCEPT
                  !.args = <<Unwrap(last.key)>>,
                  !.blob = Some(serialize(Unwrap(last.key)))]
    /\ UNCHANGED <<refresh_token, scoped_keys, access_token_cache, flow_store,
                   persist_callback, now, command_vars>>

\* Key::deserialize(raw), on the bytes serialize returned or on any bytes.
Deserialize ==
    /\ \E raw \in (IF IsSome(last.blob) THEN {Unwrap(last.blob)} ELSE {})
                  \cup ByteSeqs(0, MaxBlob) :
           LET out == deserialize(raw) IN
           last' = [Call("deserialize") EXCEPT
                      !.args = IF last.blob = Some(raw) THEN last.args ELSE <<>>,
                      !.blob = Some(raw),
                      !.result = out.result,
                      !.key = out.key]
    /\ UNCHANGED <<refresh_token, scoped_keys, access_token_cache, flow_store,
                   persist_callback, now, command_vars>>

\* No account is involved: the key codec is a set of functions.
InitKeys ==
    /\ from_state(PersistedState(None, EmptyMap))
    /\ now = 0
    /\ last = Call("new")
    /\ component = "push"

KeyNext ==
    \/ GenerateKey
    \/ Serialize
    \/ Deserialize

KeySpec == InitKeys /\ [][KeyNext]_vars

----------------------------------------------------------------------------
(* C25 *)

\* The key handed to serialize when the bytes of the call came from it.
Serialized(call) == call.args[1]

\* C25: the bytes serialize returns for a generated key are 1, the length
\* of the auth secret, the auth secret, the length of the private key and
\* the private key; deserialize of these bytes succeeds and returns a key
\* equal to the serialized one in private key, public key and auth secret;
\* and deserialize of bytes whose first byte is not 1 returns an error.
C25_KeyRoundTrip ==
    /\ (last.op = "serialize" /\ Serialized(last) \in GeneratedKeys) =>
           LET key == Serialized(last)
               blob == Unwrap(last.blob)
               n == Len(key.auth)
           IN
           /\ Len(blob) = 3 + n + Len(key.private)
           /\ blob[1] = 1
           /\ blob[2] = n
           /\ SubSeq(blob, 3, 2 + n) = key.auth
           /\ blob[3 + n] = Len(key.private)
           /\ SubSeq(blob, 4 + n, Len(blob)) = key.private
    /\ (/\ last.op = "deserialize"
        /\ last.args # <<>>
        /\ Serialized(last) \in GeneratedKeys) =>
           /\ last.result = "Ok"
           /\ Unwrap(last.key).private = Serialized(last).private
           /\ Unwrap(last.key).public = Serialized(last).public
           /\ Unwrap(last.key).auth = Serialized(last).auth
           /\ last.key = Some(Serialized(last))
    /\ (/\ last.op = "deserialize"
        /\ Len(Unwrap(last.blob)) >= 1
        /\ Unwrap(last.blob)[1] # 1) =>
           /\ last.result = "GeneralError"
           /\ last.key = None

\* The bytes of a generated key with a two-byte private key, read back.
C25_Witness ==
    /\ last.op = "deserialize"
    /\ last.args # <<>>
    /\ Serialized(last) \in GeneratedKeys
    /\ last.result = "Ok"
    /\ Len(Unwrap(last.key).private) = 2
    /\ Len(Unwrap(last.key).auth) = SER_AUTH_LENGTH
    /\ Len(Unwrap(last.blob)) = 21

----------------------------------------------------------------------------
(* C26 *)

\* The key material of the scoped keys held.
KeyMaterial == {scoped_keys[s].k : s \in DOMAIN scoped_keys}

\* The key material written in the members of a JSON object of scoped keys.
MemberKeys(members) == {members[i][2].k : i \in 1..Len(members)}

\* The key material in the state handed to the persist callback.
PayloadKeys(state) == {state.scoped_keys[s].k : s \in DOMAIN state.scoped_keys}

\* A command value that is sealed under a key-encrypting key.
Sealed(value) == Len(value) = 3 /\ value[1] = "bundle"

\* Whether a field a request carries in the clear is one of the keys `keys`:
\* its token, code and verifier, the payload of a command as sent, and the
\* command values of a device update that are not sealed.
CarriesKey(req, keys) ==
    \/ req.token \in keys
    \/ /\ "code" \in DOMAIN req
       /\ (req.code \in keys \/ req.code_verifier \in keys)
    \/ /\ req.kind = "invoke_command"
       /\ (req.body.payload.key \in keys \/ req.body.payload.tab \in keys)
    \/ /\ req.kind = "update_device"
       /\ IsSome(req.body.available_commands)
       /\ IsSome(Unwrap(req.body.available_commands))
       /\ LET commands == Unwrap(Unwrap(req.body.available_commands)) IN
          \E name \in DOMAIN commands :
              /\ ~Sealed(commands[name])
              /\ \E i \in 1..Len(commands[name]) : commands[name][i] \in keys

\* C26, as stated: neither the document to_json returns, nor the state
\* handed to the persist callback, nor any request of a call carries the
\* key material of a scoped key in the clear.
C26_NoKeyInTheClearAsStated ==
    /\ IsSome(last.json) =>
           MemberKeys(Unwrap(last.json).scoped_keys) \cap KeyMaterial = {}
    /\ \A i \in 1..Len(last.persisted) :
           PayloadKeys(last.persisted[i]) \cap KeyMaterial = {}
    /\ \A i \in 1..Len(last.reqs) : ~CarriesKey(last.reqs[i], KeyMaterial)

\* C26, amended: no request of a call carries the key material of a scoped
\* key in the clear; the document to_json returns and the state handed to
\* the persist callback are the persisted state itself and carry every
\* scoped key held, key material included.
C26_KeysOnlyInPersistedState ==
    /\ \A i \in 1..Len(last.reqs) : ~CarriesKey(last.reqs[i], KeyMaterial)
    /\ last.op = "to_json" =>
           /\ ReadMembers(Unwrap(last.json).scoped_keys) = scoped_keys
           /\ MemberKeys(Unwrap(last.json).scoped_keys) = KeyMaterial
    /\ \A i \in 1..Len(last.persisted) :
           /\ last.persisted[i].scoped_keys = scoped_keys
           /\ PayloadKeys(last.persisted[i]) = KeyMaterial

\* A to_json of an account holding two scoped keys: the document carries
\* the key material of both.
C26_Witness ==
    /\ last.op = "to_json"
    /\ KeyMaterial = {"k1", "k2"}
    /\ MemberKeys(Unwrap(last.json).scoped_keys) = {"k1", "k2"}

----------------------------------------------------------------------------
(* C27 *)

\* Whether the token response of the call delivers `key` for `scope` in a
\* keys_jwe that decrypts to an object.
Delivers(call, scope, key) ==
    /\ IsSome(call.resp)
    /\ IsSome(Unwrap(call.resp).keys_jwe)
    /\ LET jwe == Unwrap(Unwrap(call.resp).keys_jwe) IN
       /\ jwe.decrypts
       /\ jwe.is_object
       /\ \E i \in 1..Len(jwe.entries) :
              jwe.entries[i] = KeyEntry(scope, Some(key))

\* C27: no step removes a scope from scoped_keys, and the key stored for a
\* scope changes only in a complete_oauth_flow whose decrypted keys_jwe
\* delivers the new key for that scope.
C27_KeysAdditive ==
    [][ \A scope \in DOMAIN scoped_keys :
            /\ scope \in DOMAIN scoped_keys'
            /\ scoped_keys'[scope] # scoped_keys[scope] =>
                   /\ IsComplete(last')
                   /\ Delivers(last', scope, scoped_keys'[scope]) ]_vars

\* A completed flow that delivered a key for the old-sync scope to an
\* account holding a key for the profile scope: both are held.
C27_Witness ==
    /\ IsComplete(last)
    /\ last.result = "Ok"
    /\ Delivers(last, OLD_SYNC, ScopedKey(OLD_SYNC, "k1"))
    /\ DOMAIN scoped_keys = {PROFILE, OLD_SYNC}
    /\ scoped_keys[PROFILE] = ScopedKey(PROFILE, "k0")
    /\ scoped_keys[OLD_SYNC] = ScopedKey(OLD_SYNC, "k1")

----------------------------------------------------------------------------
(* C28 *)

\* The kinds and tokens of the requests of a call, outcomes left out.
Sent(call) ==
    [i \in 1..Len(call.reqs) |->
        [kind |-> call.reqs[i].kind, token |-> call.reqs[i].token]]

\* Whether a destroy request of the call failed.
DestroyFailed(call) ==
    \E i \in 1..Len(call.reqs) :
        call.reqs[i].kind = "destroy_oauth_token" /\ ~call.reqs[i].ok

\* C28: once complete_oauth_flow has sent the request that destroys the
\* returned access token, its result, the state it leaves, the requests it
\* sends and the invocation of the persist callback are those the response
\* and the state before the call determine, whether the destroy requests
\* succeed or fail: RefreshTokenNotPresent and nothing persisted when the
\* response has no refresh token; otherwise Ok, the new refresh token
\* installed, the old one asked to be destroyed, and the state handed to
\* the callback when one is registered.
C28_DestroyIsBestEffort ==
    [][ (IsComplete(last') /\ AnyDestroy(last')) =>
            LET resp == Unwrap(last'.resp)
                installs == IsSome(resp.refresh_token)
                destroy1 == [kind |-> "destroy_oauth_token",
                             token |-> resp.access_token]
                destroy2 == [kind |-> "destroy_oauth_token",
                             token |-> Unwrap(refresh_token).token]
            IN
            /\ last'.result = IF installs THEN "Ok" ELSE "RefreshTokenNotPresent"
            /\ refresh_token' =
                   IF installs
                   THEN Some([token |-> Unwrap(resp.refresh_token),
                              scopes |-> Pieces(resp.scope)])
                   ELSE refresh_token
            /\ scoped_keys' =
                   IF IsSome(resp.keys_jwe)
                   THEN StoreKeys(scoped_keys,
                                  Unwrap(resp.keys_jwe).entries).keys
                   ELSE scoped_keys
            /\ flow_store' = Remove(flow_store, last'.state)
            /\ last'.persisted =
                   IF installs /\ persist_callback
                   THEN <<StateV2(refresh_token', scoped_keys',
                                  last_handled_command, commands_data)>>
                   ELSE <<>>
            /\ SubSeq(Sent(last'), 2, Len(last'.reqs)) =
                   <<destroy1>> \o
                   (IF installs /\ IsSome(refresh_token)
                    THEN <<destroy2>> ELSE <<>>)
            /\ UNCHANGED <<access_token_cache, persist_callback, now,
                           command_vars>> ]_vars

\* A flow completed with Ok and the state persisted although both destroy
\* requests, for the access token and for the old refresh token, failed.
C28_Witness ==
    /\ IsComplete(last)
    /\ last.result = "Ok"
    /\ Len(last.reqs) = 3
    /\ ~last.reqs[2].ok
    /\ ~last.reqs[3].ok
    /\ Len(last.persisted) = 1
    /\ IsSome(refresh_token)
    /\ Unwrap(refresh_token).token = Unwrap(Unwrap(last.resp).refresh_token)

----------------------------------------------------------------------------
(* C29 *)

IsGetProfile(call) == call.op = "get_profile"

\* The profile requests among the requests of a call.
ProfileRequests(call) ==
    {i \in 1..Len(call.reqs) : call.reqs[i].kind = "profile"}

\* C29: a get_profile that has its access token serves the cached profile,
\* sending no profile request, exactly when ignore_cache is false, a profile
\* is cached and the clock is below cached_at + 120000 ms; in every other
\* case it sends one profile request, with the etag of the cached profile
\* when there is one; and a not-modified reply received while no profile is
\* cached gives UnrecoverableServerError.
C29_ProfileFreshness ==
    [][ (/\ IsGetProfile(last')
         /\ (last'.hit \/ ProfileRequests(last') # {})) =>
            LET ignore_cache == last'.args[1]
                young == /\ IsSome(profile_cache)
                         /\ now' * 1000 < Unwrap(profile_cache).cached_at + 120000
                served == last'.hit /\ ProfileRequests(last') = {}
                asked == ~last'.hit /\ Cardinality(ProfileRequests(last')) = 1
                request == last'.reqs[Len(last'.reqs)]
            IN
            /\ served <=> (~ignore_cache /\ young)
            /\ asked <=> ~(~ignore_cache /\ young)
            /\ served =>
                   /\ last'.result = "Ok"
                   /\ last'.profile = Some(Unwrap(profile_cache).response)
                   /\ profile_cache' = profile_cache
            /\ asked =>
                   /\ request.kind = "profile"
                   /\ request.etag = IF IsSome(profile_cache)
                                     THEN Some(Unwrap(profile_cache).etag)
                                     ELSE None
                   /\ (/\ last'.args[2] = [ok |-> TRUE, body |-> None]
                       /\ ~IsSome(profile_cache)) =>
                          /\ last'.result = "UnrecoverableServerError"
                          /\ profile_cache' = profile_cache
                   /\ (/\ last'.args[2] = [ok |-> TRUE, body |-> None]
                       /\ IsSome(profile_cache)) =>
                          /\ last'.result = "Ok"
                          /\ last'.profile = Some(Unwrap(profile_cache).response)
      ]_vars

\* A get_profile(false) made exactly 120000 ms after the profile was
\* cached: the cache is no longer served and the request carries its etag.
C29_Witness ==
    /\ IsGetProfile(last)
    /\ last.args[1] = FALSE
    /\ ~last.hit
    /\ ProfileRequests(last) # {}
    /\ last.reqs[Len(last.reqs)].etag = Some("e1")
    /\ IsSome(profile_cache)
    /\ now * 1000 = Unwrap(profile_cache).cached_at + PROFILE_FRESHNESS_THRESHOLD

----------------------------------------------------------------------------
(* C30 *)

\* The operations that are no writer of any persisted field.
ReadOnly ==
    {"get_access_token", "begin_oauth_flow", "begin_pairing_flow",
     "get_profile", "get_devices", "invoke_command", "send_tab",
     "set_push_subscription", "set_display_name", "clear_display_name",
     "register_command", "unregister_command", "clear_commands", "to_json"}

\* C30: no step changes the config; refresh_token and scoped_keys change
\* only in complete_oauth_flow, last_handled_command only in
\* poll_remote_commands and handle_push_message, commands_data only in
\* ensure_send_tab_registered; and get_access_token, the begin calls,
\* get_profile, get_devices, invoke_command, send_tab and the device updates
\* leave every persisted field as it was.
C30_SingleWriter ==
    [][ /\ config' = config
        /\ refresh_token' # refresh_token => IsComplete(last')
        /\ scoped_keys' # scoped_keys => IsComplete(last')
        /\ last_handled_command' # last_handled_command => IsPoll(last')
        /\ commands_data' # commands_data => IsEnsure(last')
        /\ last'.op \in ReadOnly => Persistent' = Persistent ]_vars

\* An ensure_send_tab_registered that stored fresh send-tab keys in
\* commands_data and registered the command, the refresh token and the
\* scoped keys being those the account was restored with.
C30_Witness ==
    /\ IsEnsure(last)
    /\ last.result = "Ok"
    /\ Invoked(last)
    /\ COMMAND_NAME \in DOMAIN commands_data
    /\ IsSome(refresh_token)
    /\ OLD_SYNC \in DOMAIN scoped_keys
    /\ config = Config

----------------------------------------------------------------------------
(* C31: the calls that need a refresh token, without one *)

\* The calls that start with get_refresh_token (poll_remote_commands by way
\* of handle_push_message too; the device updates by way of update_device).
NeedsRefreshToken ==
    {"poll_remote_commands", "handle_push_message", "get_devices",
     "invoke_command", "set_display_name", "clear_display_name",
     "set_push_subscription", "register_command", "unregister_command",
     "clear_commands"}

\* C31: while no refresh token is held, each of these calls returns
\* NoRefreshToken, sends no request, returns no event, invokes no persist
\* callback and leaves every field of the account as it was.
C31_NoRefreshToken ==
    [][ (last'.op \in NeedsRefreshToken /\ ~IsSome(refresh_token))
        => /\ last'.result = "NoRefreshToken"
           /\ last'.reqs = <<>>
           /\ last'.events = <<>>
           /\ last'.persisted = <<>>
           /\ UNCHANGED <<refresh_token, scoped_keys, access_token_cache,
                          flow_store, persist_callback, now,
                          last_handled_command, commands_data, profile_cache,
                          highest_handled, delivered, config>> ]_vars

\* A device update was refused while the account held send-tab keys and a
\* persist callback.
C31_Witness ==
    /\ last.op \in NeedsRefreshToken
    /\ last.result = "NoRefreshToken"
    /\ ~IsSome(refresh_token)
    /\ persist_callback
    /\ COMMAND_NAME \in DOMAIN commands_data

----------------------------------------------------------------------------
(* C32: the access-token cache is never invalidated *)

\* The call minted a token: it sent the refresh request and got an answer.
Minted(call) ==
    IsGetAccessToken(call) /\ call.result = "Ok" /\ ~call.hit

\* The entry of the cache for a scope was minted from another refresh token
\* than the one held, with another key than the one held, and the refresh
\* token held does not grant the scope.
Outlived(scope) ==
    /\ scope \in DOMAIN access_token_cache
    /\ IsSome(refresh_token)
    /\ Unwrap(refresh_token).token # "r0"
    /\ scope \notin Unwrap(refresh_token).scopes
    /\ access_token_cache[scope].key # Get(scoped_keys, scope)

\* C32: the cache changes only in a get_access_token that minted a token, and
\* then only in the entry of the requested scope, which becomes the token
\* returned; complete_oauth_flow leaves the cache as it is; a call for a scope
\* whose entry is still fresh returns that entry, token, expires_at and key
\* as they are stored, and sends no request, whatever the refresh token and
\* the scoped keys have become.
C32_CacheNeverInvalidated ==
    [][ /\ access_token_cache' # access_token_cache
            => /\ Minted(last')
               /\ access_token_cache' =
                      Insert(access_token_cache, last'.scope, Unwrap(last'.token))
        /\ IsComplete(last') => access_token_cache' = access_token_cache
        /\ (/\ IsGetAccessToken(last')
            /\ last'.scope \in DOMAIN access_token_cache
            /\ CacheFresh(access_token_cache[last'.scope], now))
            => /\ last'.result = "Ok"
               /\ last'.hit
               /\ last'.token = Some(access_token_cache[last'.scope])
               /\ last'.reqs = <<>>
               /\ access_token_cache' = access_token_cache
        /\ (IsGetAccessToken(last') /\ last'.hit)
            => /\ last'.scope \in DOMAIN access_token_cache
               /\ last'.token = Some(access_token_cache[last'.scope]) ]_vars

\* The old-sync token minted from r0 with the key k0 was served from the cache
\* after a flow installed a refresh token for the profile scope alone and
\* another old-sync key.
C32_Witness ==
    /\ IsGetAccessToken(last)
    /\ last.hit
    /\ last.scope = OLD_SYNC
    /\ Outlived(OLD_SYNC)
    /\ Unwrap(last.token).key = Some(ScopedKey(OLD_SYNC, "k0"))
    /\ Get(scoped_keys, OLD_SYNC) # Some(ScopedKey(OLD_SYNC, "k0"))

----------------------------------------------------------------------------
(* C33: what from_json does not bring back *)

IsFromJson(call) == call.op = "from_json" /\ call.result = "Ok"

\* C33: the instance from_json returns has an empty access-token cache, an
\* empty flow store, no cached profile and no persist callback; the
\* complete_oauth_flow called on it next returns UnknownOAuthState, sends
\* nothing and changes nothing, whatever flows were pending on the instance
\* that wrote the text; and while no callback is registered no call invokes
\* one.
C33_RestoredInstance ==
    [][ /\ IsFromJson(last')
            => /\ access_token_cache' = EmptyMap
               /\ flow_store' = EmptyMap
               /\ profile_cache' = None
               /\ ~persist_callback'
        /\ (IsFromJson(last) /\ IsComplete(last'))
            => /\ last'.result = "UnknownOAuthState"
               /\ last'.reqs = <<>>
               /\ UNCHANGED <<refresh_token, scoped_keys, flow_store>>
        /\ ~persist_callback /\ last'.op # "register_persist_callback"
            => last'.persisted = <<>> /\ ~persist_callback' ]_vars

\* from_json read the text of an instance that had a pending flow, a cached
\* token, a cached profile and a persist callback.
C33_Witness ==
    /\ IsFromJson(last)
    /\ Len(last.args) = 4
    /\ "st1" \in last.args[1]
    /\ PROFILE \in last.args[2]
    /\ last.args[3]
    /\ IsSome(last.args[4])
    /\ flow_store = EmptyMap
    /\ ~persist_callback

----------------------------------------------------------------------------
(* C34: what an error return of complete_oauth_flow leaves behind *)

\* The scoped keys once the first n entries of a decrypted keys object have
\* been inserted into `keys`, a later entry taking the place of an earlier
\* one for the same scope.
WithEntries(keys, entries, n) ==
    LET scopes == {entries[i].scope : i \in 1..n}
        latest(s) == CHOOSE i \in 1..n :
                         /\ entries[i].scope = s
                         /\ \A j \in (i + 1)..n : entries[j].scope # s
    IN [s \in DOMAIN keys \cup scopes |->
           IF s \in scopes THEN Unwrap(entries[latest(s)].key) ELSE keys[s]]

\* How many entries come before the first one that is not a ScopedKey.
ParsedEntries(entries) ==
    Cardinality({i \in 1..Len(entries) :
                    \A j \in 1..i : IsSome(entries[j].key)})

\* The call got a keys object it could decrypt and read, from a flow that had
\* asked for keys.
ReadsKeys(call) ==
    /\ IsSome(call.resp)
    /\ IsSome(Unwrap(call.resp).keys_jwe)
    /\ Unwrap(Unwrap(call.resp).keys_jwe).decrypts
    /\ Unwrap(Unwrap(call.resp).keys_jwe).is_object
    /\ call.result # "UnrecoverableServerError"

\* C34: a complete_oauth_flow that returns an error leaves the refresh token
\* as it was and invokes no persist callback; when it had read a keys object,
\* the entries before the first that does not parse are stored in scoped_keys
\* all the same (all of them when the error is RefreshTokenNotPresent);
\* otherwise scoped_keys is as it was.
C34_ErrorLeavesKeys ==
    [][ (IsComplete(last') /\ last'.result # "Ok")
        => /\ refresh_token' = refresh_token
           /\ last'.persisted = <<>>
           /\ IF ReadsKeys(last')
              THEN LET entries == Unwrap(Unwrap(last'.resp).keys_jwe).entries IN
                   /\ last'.result \in {"JsonError", "RefreshTokenNotPresent"}
                   /\ last'.result = "RefreshTokenNotPresent"
                          => ParsedEntries(entries) = Len(entries)
                   /\ last'.result = "JsonError"
                          => ParsedEntries(entries) < Len(entries)
                   /\ scoped_keys' =
                          WithEntries(scoped_keys, entries, ParsedEntries(entries))
              ELSE scoped_keys' = scoped_keys ]_vars

\* The call failed on the second entry of the keys object after the first
\* was stored, on an account that holds a refresh token and a callback.
C34_Witness ==
    /\ IsComplete(last)
    /\ last.result = "JsonError"
    /\ ReadsKeys(last)
    /\ IsSome(refresh_token)
    /\ persist_callback
    /\ Get(scoped_keys, OLD_SYNC) = Some(ScopedKey(OLD_SYNC, "k2"))
    /\ last.persisted = <<>>

----------------------------------------------------------------------------
(* C35: a poll whose device list cannot be fetched *)

\* The poll got messages and then failed to fetch the device list.
DevicesFailed(call) ==
    /\ IsPoll(call)
    /\ Len(call.reqs) = 2
    /\ call.reqs[2].kind = "devices"
    /\ ~call.reqs[2].ok
    /\ IsSome(call.resp)
    /\ Len(Unwrap(call.resp).messages) > 0

\* C35: a poll that got messages and failed to fetch the device list returns
\* that error and no event, leaves last_handled_command (and the rest of the
\* account) as it was and invokes no persist callback; the poll that comes
\* next asks the server for the same index.
C35_DevicesFailure ==
    [][ /\ DevicesFailed(last')
            => /\ last'.result = "RequestError"
               /\ last'.events = <<>>
               /\ last'.persisted = <<>>
               /\ UNCHANGED <<last_handled_command, commands_data, refresh_token,
                              scoped_keys, delivered>>
        /\ (DevicesFailed(last) /\ AsksPending(last'))
            => Asked(last') = Asked(last) ]_vars

\* The device list failed for a poll that had a message it could have
\* delivered, on an account with a persist callback.
C35_Witness ==
    /\ DevicesFailed(last)
    /\ persist_callback
    /\ \E i \in 1..Len(Unwrap(last.resp).messages) :
           Decrypts(Unwrap(last.resp).messages[i], commands_data)
    /\ Unwrap(last.resp).index # Base(last_handled_command)

----------------------------------------------------------------------------
(* C36: the key-encrypting key of send-tab *)

\* The calls that derive the key-encrypting key.
DerivesKek(call) == call.op \in {"send_tab", "ensure_send_tab_registered"}

\* The positions of '-' in a string, and the part after the first one.
Dashes(s) == {i \in 1..Len(s) : SubSeq(s, i, i) = "-"}
AfterDash(s) ==
    SubSeq(s, (CHOOSE i \in Dashes(s) : \A j \in Dashes(s) : i <= j) + 1, Len(s))

\* Whether a string is unpadded base64url.
IsBase64Url(s) ==
    /\ \A i \in 1..Len(s) :
           \E j \in 1..Len(URL_SAFE_NO_PAD) :
               SubSeq(s, i, i) = SubSeq(URL_SAFE_NO_PAD, j, j)
    /\ Len(s) % 4 # 1

\* Whether the stored old-sync key yields a key-encrypting key.
Derivable(key) ==
    /\ IsBase64Url(key.k)
    /\ Dashes(key.kid) # {}
    /\ IsBase64Url(AfterDash(key.kid))

\* The command value a device update registers for send-tab, if it has one.
Registered(call) ==
    IF /\ Len(call.reqs) = 1
       /\ call.reqs[1].kind = "update_device"
       /\ IsSome(call.reqs[1].body.available_commands)
       /\ IsSome(Unwrap(call.reqs[1].body.available_commands))
       /\ COMMAND_NAME \in DOMAIN Unwrap(Unwrap(call.reqs[1].body.available_commands))
    THEN Some(Unwrap(Unwrap(call.reqs[1].body.available_commands))[COMMAND_NAME])
    ELSE None

\* C36, as stated: with an old-sync key stored, send_tab and
\* ensure_send_tab_registered never abort; when the kid has a '-' and k and
\* the part of the kid after its first '-' are base64url, the key-encrypting
\* key a registration is sealed with is made of the bytes of k and of that
\* part; when the kid has no '-', or k or that part is not base64url, the
\* call returns an error and sends no request.
C36_KekOrErrorAsStated ==
    [][ (DerivesKek(last') /\ OLD_SYNC \in DOMAIN scoped_keys)
        => LET key == scoped_keys[OLD_SYNC] IN
           /\ last'.result # "Panic"
           /\ (Derivable(key) /\ IsSome(Registered(last')))
                  => Unwrap(Registered(last'))[3] =
                         <<Unwrap(decode_config(key.k)),
                           Unwrap(decode_config(AfterDash(key.kid)))>>
           /\ ~Derivable(key)
                  => last'.result # "Ok" /\ last'.reqs = <<>> ]_vars

----------------------------------------------------------------------------
(* C37: Key::deserialize on any bytes *)

IsDeserialize(call) == call.op = "deserialize"

\* Whether a blob holds every byte its version 1 layout declares: the
\* version, the length of the auth secret and that many bytes, the length of
\* the private key and that many bytes.
Complete(raw) ==
    /\ Len(raw) >= 2
    /\ Len(raw) >= 3 + raw[2]
    /\ Len(raw) >= 3 + raw[2] + raw[3 + raw[2]]

\* C37, as stated: Key::deserialize returns a Key or an error value for every
\* byte sequence; a blob that is empty or shorter than the bytes it declares
\* is reported as an error.
C37_KeyOrErrorAsStated ==
    IsDeserialize(last)
    => /\ last.result \in {"Ok", "GeneralError"}
       /\ last.result = "Ok" <=> IsSome(last.key)
       /\ ~Complete(Unwrap(last.blob)) => last.result = "GeneralError"

============================================================================
